---- MODULE Spec2Model ----
(***************************************************************************)
(* lexec: exec.Command with line-oriented duplication of the child's       *)
(* stdout and stderr into a logger.                                        *)
(*                                                                         *)
(* The model follows src/loggedexec.go (Execution: New, NoLog, StdoutPipe, *)
(* SetStdin, Start, setupStreams, Wait) and src/streams.go (streamWriter). *)
(* One Execution is modelled together with the command it wraps: the child *)
(* process, and the two copying goroutines os/exec starts for a Stdout or  *)
(* Stderr that is not a file (the "pumps"), each of which calls Write on   *)
(* the writer that setupStreams installed.                                 *)
(***************************************************************************)
EXTENDS Integers, Sequences, FiniteSets, TLC

(* ------------------------------ bounds -------------------------------- *)

\* Bytes the child writes in one execution, both streams together.
MaxBytes == 3

\* Largest exit code the child returns.
MaxExitCode == 2

\* Wait() calls that find the command not started or already waited for.
MaxFailedWaits == 1

\* Start() calls, logged, on a command that has a process already.
MaxStartAgain == 1

\* Write calls of each of two executions that run side by side.
MaxPeerWrites == 2

\* Size of an argument vector: its characters, and one for every argument.
MaxCommandSize == 5

(* ------------------------------ bytes --------------------------------- *)

NL == "\n"

Bytes == {"a", NL}

\* Byte sequences of length 1..n.
RECURSIVE SeqsUpTo(_)
SeqsUpTo(n) ==
    IF n = 0 THEN {<<>>}
    ELSE LET shorter == SeqsUpTo(n - 1)
         IN  shorter \cup {Append(q, b) : q \in {r \in shorter : Len(r) = n - 1}, b \in Bytes}

\* What one Write call may carry.
Chunks == SeqsUpTo(MaxBytes) \ {<<>>}

\* The writes of a child that writes one byte at a time.
ByteChunks == {<<b>> : b \in Bytes}

\* strings.Join(parts, "") / the bytes of several writes, one after the other.
RECURSIVE Join(_)
Join(parts) ==
    IF parts = <<>> THEN <<>> ELSE Head(parts) \o Join(Tail(parts))

\* bytes.TrimRight(data, "\n"): data without its trailing newlines.
RECURSIVE TrimRightNL(_)
TrimRightNL(data) ==
    IF data # <<>> /\ data[Len(data)] = NL
    THEN TrimRightNL(SubSeq(data, 1, Len(data) - 1))
    ELSE data

\* The decimal digits of a natural number, as fmt prints %d.
RECURSIVE Digits(_)
Digits(n) ==
    LET d == <<"0", "1", "2", "3", "4", "5", "6", "7", "8", "9">>[(n % 10) + 1]
    IN  IF n < 10 THEN <<d>> ELSE Append(Digits(n \div 10), d)

Itoa(n) == IF n < 0 THEN <<"-">> \o Digits(0 - n) ELSE Digits(n)

\* The escape byte 0x1b. Followed by "m" it is a terminal control sequence.
ESC == "\\e"

\* unicode.IsSpace, for the bytes of the model.
IsSpace(c) == c = NL

\* strings.TrimSpace: without leading and trailing white space.
RECURSIVE TrimSpace(_)
TrimSpace(b) ==
    IF b # <<>> /\ IsSpace(b[1]) THEN TrimSpace(Tail(b))
    ELSE IF b # <<>> /\ IsSpace(b[Len(b)]) THEN TrimSpace(SubSeq(b, 1, Len(b) - 1))
    ELSE b

\* stripansi.Strip: every match of the control-sequence pattern is removed,
\* the matches taken from left to right. Of the model's bytes the pattern
\* matches ESC followed by "m" and nothing else.
RECURSIVE StripAnsi(_)
StripAnsi(b) ==
    IF Len(b) < 2 THEN b
    ELSE IF b[1] = ESC /\ b[2] = "m" THEN StripAnsi(SubSeq(b, 3, Len(b)))
    ELSE <<b[1]>> \o StripAnsi(Tail(b))

\* An excerpt that keeps the white space around the output.
ExcerptUntrimmed(output) == StripAnsi(Join(output))

\* Wait(): strings.TrimSpace(stripansi.Strip(strings.Join(output, ""))).
Excerpt(output) == TrimSpace(StripAnsi(Join(output)))

(* ------------------------------ streams.go ---------------------------- *)

Stdout == "stdout"
Stderr == "stderr"
Launch == "launch"
Finish == "finish"

\* The two output streams of the child.
StreamSet == {Stdout, Stderr}

StreamData(stream, data) == [Stream |-> stream, Data |-> data]

\* One invocation of the Logger: the stream it is tagged with and its payload.
\* src/loggedexec.go:87 (the command's arguments never change and are left out).
LogRecord(stream, data) == [Stream |-> stream, Data |-> data]

(* ------------------------------ errors -------------------------------- *)

\* A nil error.
NoError ==
    [type |-> "nil", message |-> "", hasCode |-> FALSE, code |-> 0,
     hasExcerpt |-> FALSE, excerpt |-> <<>>]

\* karma.Format(err, message): an error of Go type karma.Karma.
KarmaFormat(message) ==
    [type |-> "Karma", message |-> message, hasCode |-> FALSE, code |-> 0,
     hasExcerpt |-> FALSE, excerpt |-> <<>>]

\* karma.Describe("code", code).Format(err, message): a karma.Karma whose
\* context carries the exit code.
KarmaFormatCode(message, code) ==
    [type |-> "Karma", message |-> message, hasCode |-> TRUE, code |-> code,
     hasExcerpt |-> FALSE, excerpt |-> <<>>]

\* karma.Format(excerpt, err.Error()) as the reason of an error: the error
\* with the excerpt of the output nested in it.
KarmaFormatExcerpt(e, excerpt) == [e EXCEPT !.hasExcerpt = TRUE, !.excerpt = excerpt]

\* IsExitStatus: the type assertion err.(ExitStatusError).
IsExitStatus(e) == e.type = "ExitStatusError"

\* GetExitStatus: the ExitStatus field of an ExitStatusError, 0 for any other error.
GetExitStatus(e) == IF e.type = "ExitStatusError" THEN e.code ELSE 0

(* --------------------------- the child's exit -------------------------- *)

\* What the operating system reports for the child: exit(code), or death by a
\* signal. syscall.WaitStatus.ExitStatus() is the code of an exited child and
\* -1 for any other status.
Exited(code) == [kind |-> "exit", code |-> code]
Signaled == [kind |-> "signal", code |-> 0]
NotExited == [kind |-> "none", code |-> 0]

ExitOutcomes == {Exited(c) : c \in 0..MaxExitCode} \cup {Signaled}

ExitStatus(status) == IF status.kind = "exit" THEN status.code ELSE -1

\* exec.Cmd.Wait of a child that was waited for: nil for exit status 0, an
\* *exec.ExitError for every other status.
CommandWaitError(status) ==
    IF status.kind = "exit" /\ status.code = 0 THEN "nil" ELSE "ExitError"

(* ------------------------------ mutexes ------------------------------- *)

Free == "free"

\* A lock that never waits.
CanLockUnguarded(mutex) == TRUE

\* sync.Mutex.Lock returns only while no goroutine holds the mutex.
CanLock(mutex) == mutex = Free

(* --------------------------- line relay ------------------------------- *)

HasLine(buffer) == \E i \in 1..Len(buffer) : buffer[i] = NL

FirstNL(buffer) ==
    CHOOSE i \in 1..Len(buffer) :
        buffer[i] = NL /\ \A j \in 1..(i - 1) : buffer[j] # NL

\* reader.ReadString('\n') on the pending buffer: the first line with its
\* terminator, and what follows it.
ReadLine(buffer) == SubSeq(buffer, 1, FirstNL(buffer))
AfterLine(buffer) == SubSeq(buffer, FirstNL(buffer) + 1, Len(buffer))

\* Close of a relay made with ensureNewline: the bytes flushed to the backend.
\* An empty pending buffer flushes nothing.
CloseFlush(buffer) ==
    IF buffer = <<>> THEN <<>>
    ELSE IF buffer[Len(buffer)] # NL THEN <<Append(buffer, NL)>> ELSE <<buffer>>

\* A callback that hands the flushed bytes to the Logger as they are.
LoggerCallbackNoTrim(stream, data) == LogRecord(stream, data)

\* A callback that hands the Logger the first byte of the flushed chunk only.
LoggerCallbackFirstByte(stream, data) == LogRecord(stream, SubSeq(data, 1, 1))

\* The callback loggerize hands to callbackwriter: one Logger call per chunk
\* the relay flushes, tagged with the stream, trailing newlines trimmed.
LoggerCallback(stream, data) == LogRecord(stream, TrimRightNL(data))

(* ------------------------------ state --------------------------------- *)

VARIABLES
    pc,              \* the caller: configured, started, startFailed, done,
                     \* panicked
    logger,          \* execution.logger: "set", "noop", "nil", or after NoStdLog()
                     \* "filtered" (around a logger) or "wrapsNil" (around nil)
    target,          \* execution.stdout / execution.stderr: buffer, custom, nil
    stdin,           \* execution.stdin: "nil", "source" (SetStdin) or "pipe"
    cmdOut,          \* command.Stdout / command.Stderr
    closer,          \* execution.closer: "nil" or "set"
    rewired,         \* the closer closes relays made by a later Start()
    closerRuns,      \* how many times Wait() has called the closer
    combinedStreams, \* execution.combinedStreams
    backing,         \* per event of combinedStreams, the array its Data points into
    captured,        \* per capture target, the data of each Write it received
    pipeData,        \* the bytes each StdoutPipe/StderrPipe reader received
    fed,             \* per line relay, the data of each Write it received
    pending,         \* each line relay's buffer
    relayClosed,     \* each line relay: Close was called
    log,             \* the Logger calls so far, in order
    combinedMutex,   \* setupStreams' combinedMutex: Free or the pump holding it
    streamMutex,     \* setupStreams' streamMutex: Free or the pump holding it
    pump,            \* the two copying goroutines
    cmdState,        \* the command: new, running, exited, waited
    exitInfo,        \* how the child ended
    written,         \* per stream, the chunks the child wrote so far
    err,             \* what the last Start() or Wait() returned
    cmdWaitErr,      \* what command.Wait() returned in the last Wait()
    lastCall,        \* the last call that returned: none, Start, Wait
    failedWaits,     \* Wait() calls on a command not started or already waited
    entry,           \* the call the caller is inside: none, Run, Output
    result,          \* what the last Run() or Output() returned
    given,           \* the logger New() was called with: "set" or "nil"
    stdinSource,     \* the bytes the caller supplied for the child's stdin
    childStdin,      \* the bytes that reached the child's stdin, and its end
    peers,           \* two more executions, one stream each, side by side
    shell,           \* an argument vector, its rendering, the lines logged for it
    snapshot         \* what the last GetStreamsData() returned

vars == <<pc, logger, target, stdin, cmdOut, closer, rewired, closerRuns, combinedStreams, backing, captured,
          pipeData, fed, pending, relayClosed, log, combinedMutex, streamMutex, pump,
          cmdState, exitInfo, written, err, cmdWaitErr, lastCall, failedWaits,
          entry, result, given, snapshot, stdinSource, childStdin, peers,
          shell>>

config == <<logger, target, stdin>>
wiring == <<cmdOut, closer, rewired, closerRuns>>
sinks == <<combinedStreams, backing, captured, pipeData, fed, pending, relayClosed, log>>
mutexes == <<combinedMutex, streamMutex>>
child == <<cmdState, exitInfo, written>>
calls == <<err, cmdWaitErr, lastCall, failedWaits>>
api == <<entry, result, given, snapshot, stdinSource, childStdin, peers, shell>>

IdlePump == [pc |-> "idle", data |-> <<>>, slice |-> <<>>, line |-> <<>>, err |-> "nil"]

\* Nothing returned yet by Run() or Output(). A result holds the call, whether
\* the call went on to Wait(), the two byte slices of Output(), the error, and
\* whether the call ended in a panic instead of returning.
NoResult ==
    [call |-> "none", waited |-> FALSE, stdout |-> <<>>, stderr |-> <<>>,
     err |-> NoError, panic |-> FALSE]

\* The child's stdin before anything was written to it.
NoInput == [data |-> <<>>, eof |-> FALSE]

\* The argument vector of the command true, not rendered, nothing logged.
NoShell ==
    [command |-> <<<<"t", "r", "u", "e">>>>, text |-> <<>>, formatted |-> FALSE,
     lines |-> <<>>]

\* The executions that run side by side, and the two mutexes each
\* setupStreams makes.
Executions == {"one", "two"}
MutexKinds == {"combined", "stream"}

\* Two executions as New() returns them: each has a combined log and a stdout
\* buffer of its own; no setupStreams has run, so no mutex and no relay yet.
NoPeers ==
    [pump |-> [e \in Executions |-> [pc |-> "new", data |-> <<>>, slice |-> <<>>]],
     mutexes |-> [e \in Executions |-> [combined |-> <<>>, stream |-> <<>>]],
     held |-> [id \in Executions \X MutexKinds |-> Free],
     combinedStreams |-> [e \in Executions |-> <<>>],
     stdout |-> [e \in Executions |-> <<>>],
     pending |-> [e \in Executions |-> <<>>],
     lines |-> [e \in Executions |-> <<>>]]

\* No GetStreamsData() yet. A snapshot holds the slice that was returned.
NoSnapshot == [taken |-> FALSE, data |-> <<>>]

\* A New() that keeps a nil logger.
NewLoggerKeepsNil(logger_) == logger_

\* New(): a nil logger is replaced by a Loggerf that does nothing.
NewLogger(logger_) == IF logger_ = "nil" THEN "noop" ELSE logger_

\* New(logger, cmd): internal buffers as capture targets, an empty combined
\* log, no stdin, no closer.
NewExecution(logger_) ==
    /\ given = logger_
    /\ pc = "configured"
    /\ logger = NewLogger(logger_)
    /\ target = [s \in StreamSet |-> "buffer"]
    /\ stdin = "nil"
    /\ cmdOut = [s \in StreamSet |-> "unset"]
    /\ closer = "nil"
    /\ rewired = FALSE
    /\ closerRuns = 0
    /\ combinedStreams = <<>>
    /\ backing = <<>>
    /\ captured = [s \in StreamSet |-> <<>>]
    /\ pipeData = [s \in StreamSet |-> <<>>]
    /\ fed = [s \in StreamSet |-> <<>>]
    /\ pending = [s \in StreamSet |-> <<>>]
    /\ relayClosed = [s \in StreamSet |-> FALSE]
    /\ log = <<>>
    /\ combinedMutex = Free
    /\ streamMutex = Free
    /\ pump = [s \in StreamSet |-> IdlePump]
    /\ cmdState = "new"
    /\ exitInfo = NotExited
    /\ written = [s \in StreamSet |-> <<>>]
    /\ err = NoError
    /\ cmdWaitErr = "nil"
    /\ lastCall = "none"
    /\ failedWaits = 0
    /\ entry = "none"
    /\ result = NoResult
    /\ snapshot = NoSnapshot
    /\ stdinSource = <<>>
    /\ childStdin = NoInput
    /\ peers = NoPeers

\* New(logger, cmd) for the command true.
InitWith(logger_) ==
    /\ NewExecution(logger_)
    /\ shell = NoShell

\* New(logger, cmd) with a logger.
Init == InitWith("set")

\* New(logger, cmd) with a logger or with nil.
InitNew == \E logger_ \in {"set", "nil"} : InitWith(logger_)

(* ------------------------- configuration calls ------------------------ *)

\* NoLog(): execution.logger = nil.
NoLog ==
    /\ pc = "configured"
    /\ logger # "nil"
    /\ logger' = "nil"
    /\ UNCHANGED <<api, pc, target, stdin, wiring, sinks, mutexes, pump, child, calls>>

\* NoStdLog(): execution.logger = LoggerNoOutput(execution.logger), a
\* function that is not nil even when the logger it wraps is.
NoStdLog ==
    /\ pc = "configured"
    /\ logger \notin {"filtered", "wrapsNil"}
    /\ logger' = IF logger = "nil" THEN "wrapsNil" ELSE "filtered"
    /\ UNCHANGED <<api, pc, target, stdin, wiring, sinks, mutexes, pump, child, calls>>

\* StdoutPipe() / StderrPipe(): the command hands out the read side of a pipe
\* for the stream and the execution drops its capture target.
StdPipe(s) ==
    /\ pc = "configured"
    /\ cmdOut[s] = "unset"
    /\ cmdOut' = [cmdOut EXCEPT ![s] = "pipe"]
    /\ target' = [target EXCEPT ![s] = "nil"]
    /\ UNCHANGED <<api, pc, logger, stdin, closer, rewired, closerRuns, sinks, mutexes,
                   pump, child, calls>>

\* SetStdout(target) / SetStderr(target): the capture target becomes a struct
\* that embeds the caller's writer, and an io.Reader that is left nil.
SetStd(s) ==
    /\ pc = "configured"
    /\ target[s] = "buffer"
    /\ target' = [target EXCEPT ![s] = "custom"]
    /\ UNCHANGED <<api, pc, logger, stdin, wiring, sinks, mutexes, pump, child, calls>>

\* SetStdin(source): execution.stdin becomes a struct that embeds the
\* caller's reader, and an io.WriteCloser that is left nil.
SetStdinTo(source) ==
    /\ pc = "configured"
    /\ stdin = "nil"
    /\ stdin' = "source"
    /\ stdinSource' = source
    /\ UNCHANGED <<entry, result, given, snapshot, childStdin, peers, shell, pc, logger, target,
                   wiring, sinks, mutexes, pump, child, calls>>

\* SetStdin(source) with a source that holds no bytes.
SetStdin == SetStdinTo(<<>>)

(* ------------------------------- Start -------------------------------- *)

LaunchPayload == <<"l", "a", "u", "n", "c", "h">>

\* fmt.Sprintf(`exit %d`, code).
ExitPayload(code) == <<"e", "x", "i", "t", " ">> \o Itoa(code)

LaunchRecord == LogRecord(Launch, LaunchPayload)

\* A Finish record that always says "exit 0".
FinishRecordExitZero(code) == LogRecord(Finish, ExitPayload(0))

FinishRecord(code) == LogRecord(Finish, ExitPayload(code))

\* The Logger calls a handler makes are skipped when execution.logger is nil.
Logged(records) == IF logger # "nil" THEN records ELSE <<>>

\* LoggerNoOutput(logger): of the calls it gets, the wrapped logger gets those
\* for Launch and Finish.
LoggerNoOutput(records) ==
    SelectSeq(records, LAMBDA r : r.Stream \in {Launch, Finish})

\* The records that reach the logger of those given to execution.logger.
ToLogger(records) ==
    IF logger = "filtered" THEN LoggerNoOutput(records) ELSE records

\* A setupStreams that wires a stream whether or not it has a capture target.
SetupStreamAlways(s) == IF logger # "nil" THEN "multi" ELSE "raw"

\* setupStreams, the writer it installs for a stream: with a logger and a
\* capture target the MultiWriter that loggerize builds, without a logger the
\* capture target itself; a stream without a capture target is left as it is.
SetupStream(s) ==
    IF target[s] = "nil" THEN cmdOut[s]
    ELSE IF logger # "nil" THEN "multi" ELSE "raw"

\* Start(): the Launch record, setupStreams, command.Start().
\* stdinPipeOk: command.StdinPipe() succeeds; startOk: command.Start() succeeds.
Start(stdinPipeOk, startOk) ==
    /\ pc = "configured"
    /\ logger # "wrapsNil"
    /\ log' = log \o Logged(<<LaunchRecord>>)
    /\ cmdOut' = [s \in StreamSet |-> SetupStream(s)]
    /\ closer' = IF logger # "nil" THEN "set" ELSE closer
    /\ IF stdin = "nil" /\ ~stdinPipeOk
       THEN /\ err' = KarmaFormat("can't get stdin pipe from command")
            /\ pc' = "startFailed"
            /\ UNCHANGED <<stdin, cmdState>>
       ELSE /\ stdin' = IF stdin = "nil" THEN "pipe" ELSE stdin
            /\ IF startOk
               THEN /\ err' = NoError
                    /\ pc' = "started"
                    /\ cmdState' = "running"
               ELSE /\ err' = KarmaFormat("can't start command")
                    /\ pc' = "startFailed"
                    /\ UNCHANGED cmdState
    /\ lastCall' = "Start"
    /\ UNCHANGED <<logger, target, rewired, closerRuns, combinedStreams, backing,
                   captured, pipeData, fed, pending, relayClosed, mutexes, pump,
                   exitInfo, written, cmdWaitErr, failedWaits>>

\* Start() after NoLog().NoStdLog(): execution.logger is not nil, so Start()
\* calls it with Launch, and the wrapper calls the nil logger it wraps: a nil
\* pointer dereference before setupStreams.
StartPanics ==
    /\ pc = "configured"
    /\ logger = "wrapsNil"
    /\ entry = "none"
    /\ pc' = "panicked"
    /\ lastCall' = "Start"
    /\ UNCHANGED <<api, config, wiring, sinks, mutexes, pump, child, err, cmdWaitErr,
                   failedWaits>>

\* Start() on a command that has a process already: the Launch record is
\* logged and setupStreams runs again, so with a logger the closer is now the
\* one of the relays it has just made, while the copying goroutines go on
\* writing to the writers the first Start() gave them; command.Start() fails.
\* stdin is set since the first Start(), so no stdin pipe is asked for.
StartAgain ==
    /\ pc \in {"started", "done"}
    /\ Len(SelectSeq(log, LAMBDA r : r = LaunchRecord)) <= MaxStartAgain
    /\ log' = log \o Logged(<<LaunchRecord>>)
    /\ cmdOut' = [s \in StreamSet |-> SetupStream(s)]
    /\ closer' = IF logger # "nil" THEN "set" ELSE closer
    /\ rewired' = (rewired \/ logger # "nil")
    /\ err' = KarmaFormat("can't start command")
    /\ lastCall' = "Start"
    /\ UNCHANGED <<pc, config, closerRuns, combinedStreams, backing, captured, pipeData,
                   fed, pending, relayClosed, mutexes, pump, child, cmdWaitErr,
                   failedWaits>>

(* --------------------------- child and pumps -------------------------- *)

\* A MultiWriter that leaves the capture target out.
MultiNextNoCapture(sink) == IF sink = "recorder" THEN "relay" ELSE "idle"

\* io.MultiWriter(recorder, output, logger): the stage of the pump's Write call
\* that follows a sink's Write, the sinks taken in the order they were given.
MultiNext(sink) ==
    IF sink = "recorder" THEN "output"
    ELSE IF sink = "output" THEN "relay"
    ELSE "idle"

\* The bytes the child has written so far.
ByteCount == Len(Join(written[Stdout])) + Len(Join(written[Stderr]))

\* The child writes a chunk to a stream that StdoutPipe/StderrPipe handed out:
\* the bytes go to the pipe's reader and nowhere else.
PipeWrite(s, chunk) ==
    /\ cmdState = "running"
    /\ cmdOut[s] = "pipe"
    /\ ByteCount + Len(chunk) <= MaxBytes
    /\ written' = [written EXCEPT ![s] = Append(@, chunk)]
    /\ pipeData' = [pipeData EXCEPT ![s] = @ \o chunk]
    /\ UNCHANGED <<api, pc, config, wiring, combinedStreams, backing, captured, fed, pending,
                   relayClosed, log, mutexes, pump, cmdState, exitInfo, calls>>

\* A slice of the pump's buffer after the pump read a new chunk into the
\* buffer: the slice keeps its length and shows the buffer's bytes.
Reused(data, chunk) ==
    [i \in 1..Len(data) |-> IF i <= Len(chunk) THEN chunk[i] ELSE data[i]]

\* The combined log after the pump of stream s read a chunk into its buffer:
\* an event whose Data points into that buffer shows the new bytes, an event
\* with an array of its own is as it was.
BufferReused(s, chunk) ==
    [i \in 1..Len(combinedStreams) |->
        IF backing[i] = s
        THEN [combinedStreams[i] EXCEPT !.Data = Reused(@, chunk)]
        ELSE combinedStreams[i]]

\* The child writes a chunk and the stream's pump reads it into its buffer,
\* the one buffer it uses for every chunk, and calls Write(chunk) on the
\* writer setupStreams installed: the MultiWriter starts with the recorder, a
\* bare capture target takes the bytes itself.
PumpWrite(s, chunk) ==
    /\ cmdState = "running"
    /\ cmdOut[s] \in {"multi", "raw"}
    /\ pump[s].pc = "idle"
    /\ ByteCount + Len(chunk) <= MaxBytes
    /\ written' = [written EXCEPT ![s] = Append(@, chunk)]
    /\ combinedStreams' = BufferReused(s, chunk)
    /\ pump' = [pump EXCEPT ![s] = [IdlePump EXCEPT
                    !.pc = IF cmdOut[s] = "multi" THEN "record" ELSE "output",
                    !.data = chunk]]
    /\ UNCHANGED <<api, pc, config, wiring, backing, captured, pipeData, fed, pending,
                   relayClosed, log, mutexes, cmdState, exitInfo, calls>>

\* streamWriter.Write: writer.mutex.Lock(), and the read of *writer.output
\* that append starts with.
RecordLock(s) ==
    /\ pump[s].pc = "record"
    /\ CanLock(combinedMutex)
    /\ combinedMutex' = s
    /\ pump' = [pump EXCEPT ![s].pc = "append", ![s].slice = combinedStreams]
    /\ UNCHANGED <<api, pc, config, wiring, sinks, streamMutex, child, calls>>

\* A recorder that puts the new event in front of the others.
PrependEvent(output, event) == <<event>> \o output

\* append(*writer.output, StreamData{...}): the event follows the others.
AppendEvent(output, event) == Append(output, event)

\* A recorder that stores the slice it was given: the event's Data points
\* into the buffer of the stream's pump.
NotIndirected(s) == s

\* indirected := make([]byte, len(data)); copy(indirected, data): the event's
\* Data points into an array of its own.
Indirected(s) == "own"

\* A recorder that returns without unlocking its mutex.
NoUnlock(s) == s

\* defer writer.mutex.Unlock(): the mutex is free when Write has returned.
DeferredUnlock(s) == Free

\* streamWriter.Write: the copy of data, the append stored back into
\* *writer.output, and the deferred Unlock.
RecordAppend(s) ==
    /\ pump[s].pc = "append"
    /\ combinedStreams' = AppendEvent(pump[s].slice, StreamData(s, pump[s].data))
    /\ backing' = Append(SubSeq(backing, 1, Len(pump[s].slice)), Indirected(s))
    /\ combinedMutex' = DeferredUnlock(s)
    /\ pump' = [pump EXCEPT ![s].pc = MultiNext("recorder"), ![s].slice = <<>>]
    /\ UNCHANGED <<api, pc, config, wiring, captured, pipeData, fed, pending,
                   relayClosed, log, streamMutex, child, calls>>

\* output.Write(data): the capture target takes the bytes.
OutputWrite(s) ==
    /\ pump[s].pc = "output"
    /\ captured' = [captured EXCEPT ![s] = Append(@, pump[s].data)]
    /\ pump' = [pump EXCEPT ![s] =
                    IF cmdOut[s] = "multi"
                    THEN [@ EXCEPT !.pc = MultiNext("output")] ELSE IdlePump]
    /\ UNCHANGED <<api, pc, config, wiring, combinedStreams, backing, pipeData, fed, pending,
                   relayClosed, log, mutexes, child, calls>>

\* What a Write of the caller's writer may return when it does not take all
\* of data: an error after any number of bytes, or fewer bytes than it was
\* given and no error.
SinkFailures(data) ==
    [n : 0..Len(data), err : {"error"}] \cup [n : 0..(Len(data) - 1), err : {"nil"}]

\* A MultiWriter that drops the error of its sink.
MultiWriterErrorDropped(data, ret) == "nil"

\* io.MultiWriter.Write, after a sink's Write returned ret: the sink's error
\* is returned as it is, a short count without error as io.ErrShortWrite, and
\* in either case no later sink is written to.
MultiWriterError(data, ret) ==
    IF ret.err # "nil" THEN ret.err
    ELSE IF ret.n # Len(data) THEN "ErrShortWrite"
    ELSE "nil"

\* output.Write(data) on a writer set by SetStdout/SetStderr that fails: the
\* writer has taken the first ret.n bytes, the Write call of the pump returns
\* the error, and the goroutine stops copying the stream.
OutputWriteFails(s, ret) ==
    /\ pump[s].pc = "output"
    /\ target[s] = "custom"
    /\ ret \in SinkFailures(pump[s].data)
    /\ captured' = [captured EXCEPT ![s] = Append(@, SubSeq(pump[s].data, 1, ret.n))]
    /\ pump' = [pump EXCEPT ![s].pc = "failed",
                            ![s].err = MultiWriterError(pump[s].data, ret)]
    /\ UNCHANGED <<api, pc, config, wiring, combinedStreams, backing, pipeData, fed,
                   pending, relayClosed, log, mutexes, child, calls>>

\* Relays that lock a mutex each of its own, which no one else holds.
RelayCanLockOwn(s) == TRUE

\* loggerize hands the one streamMutex of setupStreams to the relay of either
\* stream: a relay goes on only while the other does not hold it.
RelayCanLock(s) == CanLock(streamMutex)

\* The relay's Write: under the stream mutex, data joins the pending buffer.
RelayWrite(s) ==
    /\ pump[s].pc = "relay"
    /\ RelayCanLock(s)
    /\ fed' = [fed EXCEPT ![s] = Append(@, pump[s].data)]
    /\ pending' = [pending EXCEPT ![s] = @ \o pump[s].data]
    /\ pump' = [pump EXCEPT ![s].pc = "scan"]
    /\ UNCHANGED <<api, pc, config, wiring, combinedStreams, backing, captured, pipeData,
                   relayClosed, log, mutexes, child, calls>>

\* The relay's Write, one turn of its loop: under the stream mutex, read a line
\* from the pending buffer. A complete line goes to the backend (RelayEmit);
\* an unterminated rest stays pending and Write returns.
RelayRead(s) ==
    /\ pump[s].pc = "scan"
    /\ RelayCanLock(s)
    /\ IF HasLine(pending[s])
       THEN /\ streamMutex' = s
            /\ pending' = [pending EXCEPT ![s] = AfterLine(@)]
            /\ pump' = [pump EXCEPT ![s].pc = "emit", ![s].line = ReadLine(pending[s])]
       ELSE /\ pump' = [pump EXCEPT ![s] = [IdlePump EXCEPT !.pc = MultiNext("relay")]]
            /\ UNCHANGED <<streamMutex, pending>>
    /\ UNCHANGED <<api, pc, config, wiring, combinedStreams, backing, captured, pipeData, fed,
                   relayClosed, log, combinedMutex, child, calls>>

\* The relay hands the line to its backend, whose callback calls the Logger;
\* then the stream mutex is released.
RelayEmit(s) ==
    /\ pump[s].pc = "emit"
    /\ log' = log \o ToLogger(<<LoggerCallback(s, pump[s].line)>>)
    /\ streamMutex' = Free
    /\ pump' = [pump EXCEPT ![s].pc = "scan", ![s].line = <<>>]
    /\ UNCHANGED <<api, pc, config, wiring, combinedStreams, backing, captured, pipeData, fed,
                   pending, relayClosed, combinedMutex, child, calls>>

\* The child ends; how it ended is what command.Wait() reports.
ProcExit ==
    /\ cmdState = "running"
    /\ cmdState' = "exited"
    /\ UNCHANGED <<api, pc, config, wiring, sinks, mutexes, pump, exitInfo, written,
                   calls>>

(* -------------------------------- stdin ------------------------------- *)

\* A command that reads nothing of the reader it was given.
FromSourceNothing(source) == <<>>

\* command.SetStdin(execution.stdin): what the command reads is what the
\* struct's embedded reader yields, the bytes of the caller's source.
FromSource(source) == source

\* The command copies the reader SetStdin gave it into the child's stdin and
\* closes the child's stdin at the reader's end.
StdinCopy ==
    /\ stdin = "source"
    /\ cmdState = "running"
    /\ ~childStdin.eof
    /\ childStdin' = [data |-> FromSource(stdinSource), eof |-> TRUE]
    /\ UNCHANGED <<entry, result, given, snapshot, stdinSource, peers, shell, pc, config, wiring,
                   sinks, mutexes, pump, child, calls>>

\* GetStdin().Write(chunk): execution.stdin embeds the write side of the pipe
\* command.StdinPipe() returned, so the bytes reach the child's stdin.
StdinWrite(chunk) ==
    /\ stdin = "pipe"
    /\ cmdState = "running"
    /\ ~childStdin.eof
    /\ Len(stdinSource) + Len(chunk) <= MaxBytes
    /\ stdinSource' = stdinSource \o chunk
    /\ childStdin' = [childStdin EXCEPT !.data = @ \o chunk]
    /\ UNCHANGED <<entry, result, given, snapshot, peers, shell, pc, config, wiring, sinks,
                   mutexes, pump, child, calls>>

\* GetStdin().Close(): the child's stdin ends.
StdinClose ==
    /\ stdin = "pipe"
    /\ cmdState = "running"
    /\ ~childStdin.eof
    /\ childStdin' = [childStdin EXCEPT !.eof = TRUE]
    /\ UNCHANGED <<entry, result, given, snapshot, stdinSource, peers, shell, pc, config, wiring,
                   sinks, mutexes, pump, child, calls>>

\* The bytes a child that copies its stdin to its stdout has written.
Echoed == Len(Join(written[Stdout]))

\* A child that copies its stdin to its stdout writes the next n bytes it has
\* read.
EchoWrite(n) ==
    /\ Echoed + n <= Len(childStdin.data)
    /\ PumpWrite(Stdout, SubSeq(childStdin.data, Echoed + 1, Echoed + n))

\* A child that copies its stdin to its stdout ends at the end of its stdin,
\* when it has written all it read.
EchoExit ==
    /\ childStdin.eof
    /\ Echoed = Len(childStdin.data)
    /\ ProcExit

(* -------------------------------- Wait -------------------------------- *)

\* Wait(), the error it returns for what command.Wait() returned: an error
\* that is no *exec.ExitError is reported as it is; an *exec.ExitError is
\* reported with status.ExitStatus() as its code and, when the combined log
\* holds an event, with the excerpt of its payloads. (Sys() of an ExitError
\* is a syscall.WaitStatus on every platform the package builds for.)
WaitError(werr, status) ==
    LET output == [i \in 1..Len(combinedStreams) |-> combinedStreams[i].Data]
        coded == KarmaFormatCode("execution completed with non-zero exit code",
                                 ExitStatus(status))
    IN  IF werr = "nil" THEN NoError
        ELSE IF werr # "ExitError" THEN KarmaFormat("unable to start command")
        ELSE IF Len(output) > 0 THEN KarmaFormatExcerpt(coded, Excerpt(output))
        ELSE coded

\* A Wait() that never runs the closer.
ClosesRelaysNever(werr) == FALSE

\* A Wait() that runs the closer whatever command.Wait() returned.
ClosesRelaysAlways(werr) == closer # "nil"

\* Wait() runs the closer on the path that command.Wait() left without error.
ClosesRelays(werr) == werr = "nil" /\ closer # "nil"

\* The closer built by setupStreams closes the relay of every stream that
\* loggerize wrapped, stdout first. The closer of a later Start() closes the
\* relays of that Start(), which no one has written to.
HasCloser(s) == cmdOut[s] = "multi" /\ ~rewired

RelayCloseRecords(s) ==
    IF HasCloser(s)
    THEN ToLogger([i \in 1..Len(CloseFlush(pending[s])) |->
                       LoggerCallback(s, CloseFlush(pending[s])[i])])
    ELSE <<>>

CloserRecords == RelayCloseRecords(Stdout) \o RelayCloseRecords(Stderr)

\* A Wait() that logs Finish whatever command.Wait() returned.
WaitRecordsFinishAlways(werr, status) == Logged(<<FinishRecord(0)>>)

\* A Wait() that logs Finish before it runs the closer.
WaitRecordsFinishFirst(werr, status) ==
    IF werr = "nil"
    THEN Logged(<<FinishRecord(0)>>)
         \o (IF ClosesRelays(werr) THEN CloserRecords ELSE <<>>)
    ELSE IF werr # "ExitError" THEN <<>>
    ELSE Logged(<<FinishRecord(ExitStatus(status))>>)

\* Wait(), the Logger calls it makes: none when command.Wait() fails with an
\* error that is no ExitError, the Finish record with the exit status for an
\* ExitError, and after a clean exit what the closer flushes, then Finish.
WaitRecords(werr, status) ==
    IF werr = "nil"
    THEN (IF ClosesRelays(werr) THEN CloserRecords ELSE <<>>)
         \o Logged(<<FinishRecord(0)>>)
    ELSE IF werr # "ExitError" THEN <<>>
    ELSE Logged(<<FinishRecord(ExitStatus(status))>>)

\* Wait(), whatever command.Wait() returned.
WaitBody(werr, status) ==
    /\ cmdWaitErr' = werr
    /\ err' = WaitError(werr, status)
    /\ log' = log \o WaitRecords(werr, status)
    /\ IF ClosesRelays(werr)
       THEN /\ pending' = [s \in StreamSet |-> IF HasCloser(s) THEN <<>> ELSE pending[s]]
            /\ relayClosed' = [s \in StreamSet |-> relayClosed[s] \/ HasCloser(s)]
       ELSE UNCHANGED <<pending, relayClosed>>
    /\ closerRuns' = IF ClosesRelays(werr) THEN closerRuns + 1 ELSE closerRuns
    /\ lastCall' = "Wait"

\* A command.Wait() that does not wait for the copying goroutines.
PumpsNotAwaited == TRUE

PumpsDone == \A s \in StreamSet : pump[s].pc = "idle"

\* Wait() on a started command: command.Wait() returns once the child has
\* ended and both pumps have returned, and reports how the child ended.
WaitReturn(outcome) ==
    /\ pc = "started"
    /\ cmdState = "exited"
    /\ PumpsDone
    /\ exitInfo' = outcome
    /\ WaitBody(CommandWaitError(outcome), outcome)
    /\ pc' = "done"
    /\ cmdState' = "waited"
    /\ UNCHANGED <<config, cmdOut, closer, rewired, combinedStreams, backing, captured,
                   pipeData, fed, mutexes, pump, written, failedWaits>>

\* Wait() on a command that was not started or was already waited for:
\* command.Wait() fails with an error that is no ExitError.
WaitFailed ==
    /\ cmdState \in {"new", "waited"}
    /\ failedWaits < MaxFailedWaits
    /\ failedWaits' = failedWaits + 1
    /\ WaitBody("other", exitInfo)
    /\ UNCHANGED <<pc, config, cmdOut, closer, rewired, combinedStreams, backing,
                   captured, pipeData, fed, mutexes, pump, child>>

(* --------------------------- GetStreamsData --------------------------- *)

\* StreamData{}: an element of the slice's array that no one has written yet.
ZeroStreamData == StreamData("", <<>>)

\* GetStreamsData(): return execution.combinedStreams, read without taking
\* combinedMutex. While no streamWriter is between its read of the slice and
\* its store, the read returns the slice as it is. While one is, the read
\* races with the store of the three-word slice header and of the new
\* element: it returns the slice as it was (view "old"), the slice with the
\* new event (view "new"), or the new length over an element whose fields
\* have not arrived (view "torn").
GetStreamsData(view) ==
    /\ ~snapshot.taken
    /\ LET writers == {s \in StreamSet : pump[s].pc = "append"}
           w == CHOOSE s \in writers : TRUE
           seen == IF writers = {} \/ view = "old" THEN combinedStreams
                   ELSE IF view = "new"
                   THEN AppendEvent(pump[w].slice, StreamData(w, pump[w].data))
                   ELSE AppendEvent(pump[w].slice, ZeroStreamData)
       IN  /\ writers = {} => view = "old"
           /\ snapshot' = [taken |-> TRUE, data |-> seen]
    /\ UNCHANGED <<pc, config, wiring, sinks, mutexes, pump, child, calls, entry,
                   result, given, stdinSource, childStdin, peers, shell>>

(* ------------------------ executions side by side --------------------- *)

\* What a step of one of the two executions leaves alone.
PeerFrame ==
    UNCHANGED <<entry, result, given, snapshot, stdinSource, childStdin, shell, pc,
                config, wiring, sinks, mutexes, pump, child, calls>>

\* Mutexes of the package, the same two for every execution.
PackageMutexes(e) == [k \in MutexKinds |-> <<"one", k>>]

\* setupStreams: streamMutex = &sync.Mutex{}, combinedMutex = &sync.Mutex{},
\* two new mutexes at every call.
NewMutexes(e) == [k \in MutexKinds |-> <<e, k>>]

\* Start() of execution e: setupStreams makes the mutexes and hands them to
\* the recorder and the relay of e's stdout.
PeerStart(e) ==
    /\ peers.pump[e].pc = "new"
    /\ peers' = [peers EXCEPT !.pump[e].pc = "idle", !.mutexes[e] = NewMutexes(e)]
    /\ PeerFrame

\* The pump of e's stdout calls Write(chunk) on the MultiWriter.
PeerWrite(e, chunk) ==
    /\ peers.pump[e].pc = "idle"
    /\ Len(peers.stdout[e]) < MaxPeerWrites
    /\ peers' = [peers EXCEPT !.pump[e].pc = "record", !.pump[e].data = chunk]
    /\ PeerFrame

\* streamWriter.Write of e: writer.mutex.Lock() and the read of *writer.output.
PeerRecordLock(e) ==
    /\ peers.pump[e].pc = "record"
    /\ CanLock(peers.held[peers.mutexes[e].combined])
    /\ peers' = [peers EXCEPT !.held[peers.mutexes[e].combined] = e,
                              !.pump[e].pc = "append",
                              !.pump[e].slice = peers.combinedStreams[e]]
    /\ PeerFrame

\* streamWriter.Write of e: the append stored into e's combinedStreams, and
\* the Unlock.
PeerRecordAppend(e) ==
    /\ peers.pump[e].pc = "append"
    /\ peers' = [peers EXCEPT
                    !.combinedStreams[e] =
                        AppendEvent(peers.pump[e].slice,
                                    StreamData(Stdout, peers.pump[e].data)),
                    !.held[peers.mutexes[e].combined] = Free,
                    !.pump[e].pc = MultiNext("recorder"),
                    !.pump[e].slice = <<>>]
    /\ PeerFrame

\* e's stdout buffer takes the bytes.
PeerOutputWrite(e) ==
    /\ peers.pump[e].pc = "output"
    /\ peers' = [peers EXCEPT !.stdout[e] = Append(@, peers.pump[e].data),
                              !.pump[e].pc = MultiNext("output")]
    /\ PeerFrame

\* e's relay takes its stream mutex and the bytes join its pending buffer.
PeerRelayWrite(e) ==
    /\ peers.pump[e].pc = "relay"
    /\ CanLock(peers.held[peers.mutexes[e].stream])
    /\ peers' = [peers EXCEPT !.held[peers.mutexes[e].stream] = e,
                              !.pending[e] = @ \o peers.pump[e].data,
                              !.pump[e].pc = "emit"]
    /\ PeerFrame

\* e's relay hands the next complete line of its pending buffer to its
\* backend, whose callback calls the Logger; when no line is left it releases
\* the stream mutex and Write returns.
PeerRelayEmit(e) ==
    /\ peers.pump[e].pc = "emit"
    /\ IF HasLine(peers.pending[e])
       THEN peers' = [peers EXCEPT
                         !.lines[e] = Append(@, LoggerCallback(Stdout,
                                                               ReadLine(peers.pending[e]))),
                                   !.pending[e] = AfterLine(@)]
       ELSE peers' = [peers EXCEPT !.held[peers.mutexes[e].stream] = Free,
                                   !.pump[e].pc = MultiNext("relay"),
                                   !.pump[e].data = <<>>]
    /\ PeerFrame

(* ------------------------------ the caller ---------------------------- *)

\* The caller calls Start() or Wait() itself, while it is in no other call.
CallStart(stdinPipeOk, startOk) ==
    /\ entry = "none"
    /\ Start(stdinPipeOk, startOk)
    /\ UNCHANGED api

CallWait(outcome) ==
    /\ entry = "none"
    /\ WaitReturn(outcome)
    /\ UNCHANGED api

CallWaitFailed ==
    /\ entry = "none"
    /\ WaitFailed
    /\ UNCHANGED api

CallStartAgain ==
    /\ entry = "none"
    /\ StartAgain
    /\ UNCHANGED api

\* A Run() that goes on to Wait() whatever Start() returned.
RunWaitsAlways(starterr) == TRUE

\* Run(): err := execution.Start(); if err != nil { return err }.
RunWaits(starterr) == starterr = NoError

\* ioutil.ReadAll on a capture target: the internal bytes.Buffer is read to
\* its end without error; a target set by SetStdout/SetStderr is a struct
\* whose embedded io.Reader is nil, and a target dropped by StdoutPipe/
\* StderrPipe is a nil interface: Read on either is a nil dereference.
ReadAll(t) == IF t = "buffer" THEN "ok" ELSE "panic"

\* Output(), after Run() returned runErr: both capture targets are read,
\* stdout first; a failed read is returned in place of everything else.
OutputResult(waited, runErr) ==
    LET so == ReadAll(target[Stdout])
        se == ReadAll(target[Stderr])
        failed(message) ==
            [NoResult EXCEPT !.call = "Output", !.waited = waited,
                             !.err = KarmaFormat(message)]
    IN  IF so = "panic" \/ (so = "ok" /\ se = "panic")
        THEN [NoResult EXCEPT !.call = "Output", !.waited = waited, !.panic = TRUE]
        ELSE IF so = "error" THEN failed("can't read execution stdout")
        ELSE IF se = "error" THEN failed("can't read execution stderr")
        ELSE [NoResult EXCEPT !.call = "Output", !.waited = waited,
                              !.stdout = Join(captured[Stdout]),
                              !.stderr = Join(captured[Stderr]),
                              !.err = runErr]

\* What Run() hands back to its caller, and Output() to its own.
Returned(call, waited, e) ==
    IF call = "Output" THEN OutputResult(waited, e)
    ELSE [NoResult EXCEPT !.call = call, !.waited = waited, !.err = e]

\* Run(), or the Run() that Output() starts with: Start() is called, and its
\* error, if any, is what Run() returns.
RunStart(call, stdinPipeOk, startOk) ==
    /\ entry = "none"
    /\ Start(stdinPipeOk, startOk)
    /\ IF RunWaits(err')
       THEN /\ entry' = call
            /\ UNCHANGED result
       ELSE /\ entry' = "none"
            /\ result' = Returned(call, FALSE, err')
    /\ UNCHANGED <<given, snapshot, stdinSource, childStdin, peers, shell>>

\* Run() calls Wait() and returns what Wait() returns.
RunWait(outcome) ==
    /\ entry # "none"
    /\ IF pc = "started"
       THEN WaitReturn(outcome)
       ELSE outcome = Signaled /\ WaitFailed
    /\ entry' = "none"
    /\ result' = Returned(entry, TRUE, err')
    /\ UNCHANGED <<given, snapshot, stdinSource, childStdin, peers, shell>>

(* ---------------------------- specification --------------------------- *)

\* The steps of a pump inside one Write call.
WriteSteps ==
    \/ \E s \in StreamSet : RecordLock(s)
    \/ \E s \in StreamSet : RecordAppend(s)
    \/ \E s \in StreamSet : OutputWrite(s)
    \/ \E s \in StreamSet : RelayWrite(s)
    \/ \E s \in StreamSet : RelayRead(s)
    \/ \E s \in StreamSet : RelayEmit(s)

\* The steps of the child and of the two pumps.
Steps ==
    \/ \E s \in StreamSet, chunk \in Chunks : PipeWrite(s, chunk)
    \/ \E s \in StreamSet, chunk \in Chunks : PumpWrite(s, chunk)
    \/ WriteSteps
    \/ ProcExit

Next ==
    \/ NoLog
    \/ SetStdin
    \/ \E s \in StreamSet : StdPipe(s)
    \/ \E stdinPipeOk \in BOOLEAN, startOk \in BOOLEAN : CallStart(stdinPipeOk, startOk)
    \/ \E s \in StreamSet, chunk \in Chunks : PipeWrite(s, chunk)
    \/ \E s \in StreamSet, chunk \in Chunks : PumpWrite(s, chunk)
    \/ \E s \in StreamSet : RecordLock(s)
    \/ \E s \in StreamSet : RecordAppend(s)
    \/ \E s \in StreamSet : OutputWrite(s)
    \/ \E s \in StreamSet : RelayWrite(s)
    \/ \E s \in StreamSet : RelayRead(s)
    \/ \E s \in StreamSet : RelayEmit(s)
    \/ ProcExit
    \/ \E outcome \in ExitOutcomes : CallWait(outcome)
    \/ CallWaitFailed

Spec == Init /\ [][Next]_vars

\* One Start() and one Wait() around the child and the pumps.
NextDrain ==
    \/ NoLog
    \/ \E s \in StreamSet : StdPipe(s)
    \/ \E stdinPipeOk \in BOOLEAN, startOk \in BOOLEAN : CallStart(stdinPipeOk, startOk)
    \/ Steps
    \/ \E outcome \in ExitOutcomes : CallWait(outcome)

\* The scheduler runs every goroutine that can take a step, so a pump inside
\* a Write call goes on, the Logger call it makes included; and the caller,
\* once the child has ended, is in Wait().
FairSpec ==
    /\ Init
    /\ [][NextDrain]_vars
    /\ WF_vars(WriteSteps)
    /\ WF_vars(\E outcome \in ExitOutcomes : CallWait(outcome))

\* A caller that uses Run() and Output(), and may call Wait() afterwards.
NextRun ==
    \/ NoLog
    \/ \E s \in StreamSet : StdPipe(s)
    \/ \E call \in {"Run", "Output"}, stdinPipeOk \in BOOLEAN, startOk \in BOOLEAN :
           RunStart(call, stdinPipeOk, startOk)
    \/ Steps
    \/ \E outcome \in ExitOutcomes : RunWait(outcome)
    \/ CallWaitFailed

SpecRun == Init /\ [][NextRun]_vars

\* A caller that uses Output(), with or without capture targets of its own.
NextOutput ==
    \/ NoLog
    \/ \E s \in StreamSet : SetStd(s)
    \/ \E s \in StreamSet : StdPipe(s)
    \/ \E stdinPipeOk \in BOOLEAN, startOk \in BOOLEAN :
           RunStart("Output", stdinPipeOk, startOk)
    \/ Steps
    \/ \E outcome \in ExitOutcomes : RunWait(outcome)

SpecOutput == Init /\ [][NextOutput]_vars

\* Writes of a child that colours its output: single bytes, control sequences
\* whole and cut in two by the end of a write.
AnsiChunks == {<<"a">>, <<NL>>, <<ESC>>, <<"m">>, <<ESC, "m">>}

\* Start() and Wait() around a child that prints control sequences.
NextExcerpt ==
    \/ NoLog
    \/ \E stdinPipeOk \in BOOLEAN, startOk \in BOOLEAN : CallStart(stdinPipeOk, startOk)
    \/ \E s \in StreamSet, chunk \in AnsiChunks : PumpWrite(s, chunk)
    \/ WriteSteps
    \/ ProcExit
    \/ \E outcome \in ExitOutcomes : CallWait(outcome)

SpecExcerpt == Init /\ [][NextExcerpt]_vars

\* Start() and Wait() in one goroutine, GetStreamsData() in another.
NextSnapshot ==
    \/ \E stdinPipeOk \in BOOLEAN, startOk \in BOOLEAN : CallStart(stdinPipeOk, startOk)
    \/ \E s \in StreamSet, chunk \in Chunks : PumpWrite(s, chunk)
    \/ WriteSteps
    \/ ProcExit
    \/ \E outcome \in ExitOutcomes : CallWait(outcome)
    \/ \E view \in {"old", "new", "torn"} : GetStreamsData(view)

SpecSnapshot == Init /\ [][NextSnapshot]_vars

\* The same calls and steps, on an execution made with a logger or with nil.
SpecNew == InitNew /\ [][NextExcerpt]_vars

(* ------------------------------ properties ---------------------------- *)

\* Start() returned without error.
Started == pc \in {"started", "done"}

\* The stream goes through the MultiWriter of loggerize: the execution has a
\* logger and kept a capture target for the stream.
Wired(s) == Started /\ logger # "nil" /\ target[s] # "nil"

EventsOf(s) == SelectSeq(combinedStreams, LAMBDA e : e.Stream = s)

RecordsOf(s) == SelectSeq(log, LAMBDA r : r.Stream = s)

Payloads(records) == [i \in 1..Len(records) |-> records[i].Data]

Front(q) == SubSeq(q, 1, Len(q) - 1)

\* The bytes split at every newline, the newlines removed: the terminated
\* lines, then what follows the last newline (empty when nothing does).
RECURSIVE SplitNL(_)
SplitNL(b) ==
    IF \A i \in 1..Len(b) : b[i] # NL THEN <<b>>
    ELSE LET i == CHOOSE k \in 1..Len(b) :
                      b[k] = NL /\ \A j \in 1..(k - 1) : b[j] # NL
         IN  <<SubSeq(b, 1, i - 1)>> \o SplitNL(SubSeq(b, i + 1, Len(b)))

Terminated(b) == Front(SplitNL(b))

Unterminated(b) == SplitNL(b)[Len(SplitNL(b))]

AllLines(b) ==
    Terminated(b) \o (IF Unterminated(b) # <<>> THEN <<Unterminated(b)>> ELSE <<>>)

\* The bytes the child wrote to a stream.
ChildOutput(s) == Join(written[s])

\* Wait() returned for a started child that ended with exit status 0.
CleanExit == cmdState = "waited" /\ exitInfo = Exited(0)

\* Wait() returned for a started child that ended by exiting, with any status.
AnyExit == cmdState = "waited" /\ exitInfo.kind = "exit"

\* Wait() returned for a started child that ended with exit status n > 0.
NonZeroExit == cmdState = "waited" /\ exitInfo.kind = "exit" /\ exitInfo.code > 0

(* C1: with a logger and exit status 0, the Logger calls of Run() are one
   Launch record first, then the line records of stdout and stderr, the
   unterminated remainders flushed by the closer included, then one Finish
   record "exit 0" last; nothing is logged after it. *)
C1_LaunchLinesFinish ==
    (CleanExit /\ logger # "nil") =>
        /\ Len(log) >= 2
        /\ log[1] = LogRecord(Launch, <<"l", "a", "u", "n", "c", "h">>)
        /\ log[Len(log)] = LogRecord(Finish, <<"e", "x", "i", "t", " ", "0">>)
        /\ \A i \in 2..(Len(log) - 1) : log[i].Stream \in StreamSet
        /\ \A s \in StreamSet :
               Wired(s) => Payloads(RecordsOf(s)) = AllLines(ChildOutput(s))

C1_Witness ==
    /\ CleanExit
    /\ logger # "nil"
    /\ Len(RecordsOf(Stdout)) >= 2
    /\ Unterminated(ChildOutput(Stdout)) # <<>>
    /\ log[Len(log)].Stream = Finish

\* The stages of a pump's Write call in which a sink has not yet taken the data.
BeforeRecorder == {"record", "append"}
BeforeCapture == BeforeRecorder \cup {"output"}
BeforeRelay == BeforeCapture \cup {"relay"}

\* The writes of a stream that a sink must have received, given where the
\* stream's pump is in its current Write call.
Delivered(s, stages) ==
    IF pump[s].pc \in stages THEN Front(written[s]) ELSE written[s]

ExactlyOnceInOrder(s) ==
    /\ Payloads(EventsOf(s)) = Delivered(s, BeforeRecorder)
    /\ captured[s] = Delivered(s, BeforeCapture)
    /\ fed[s] = Delivered(s, BeforeRelay)
    /\ \A i \in 1..Len(EventsOf(s)) : EventsOf(s)[i].Stream = s

(* C2, as stated: for every started execution, each write of the child to
   stdout or stderr reaches the recorder, the stream's line relay and the
   capture writer exactly once, in the order of the writes. *)
C2_EveryStartedExecution ==
    \A s \in StreamSet : Started => ExactlyOnceInOrder(s)

(* C2, amended: for every started execution that has a logger, each write of
   the child to a stream that kept its capture target (no StdoutPipe or
   StderrPipe) reaches the recorder, the stream's line relay and the capture
   writer exactly once, in the order of the writes. *)
C2_WiredStreams ==
    \A s \in StreamSet : Wired(s) => ExactlyOnceInOrder(s)

C2_Witness ==
    /\ Wired(Stdout)
    /\ pump[Stdout].pc = "idle"
    /\ Len(written[Stdout]) >= 2
    /\ written[Stdout][1] # written[Stdout][2]
    /\ fed[Stdout] = written[Stdout]

\* The writes of a stream that are made into the combined log.
LogWrites(s) == IF Wired(s) THEN Delivered(s, BeforeRecorder) ELSE <<>>

(* C3: however the writes of the stdout pump and the stderr pump interleave,
   the combined log holds one event per write made into it, no event lost or
   duplicated, and each event carries the stream and the bytes of its write. *)
C3_NoEventLost ==
    /\ Len(combinedStreams) = Len(LogWrites(Stdout)) + Len(LogWrites(Stderr))
    /\ \A s \in StreamSet : Payloads(EventsOf(s)) = LogWrites(s)
    /\ \A i \in 1..Len(combinedStreams) : combinedStreams[i].Stream \in StreamSet

C3_Witness ==
    /\ cmdState = "exited"
    /\ PumpsDone
    /\ Len(combinedStreams) = 3
    /\ combinedStreams[1].Stream = Stderr
    /\ combinedStreams[2].Stream = Stdout
    /\ combinedStreams[3].Stream = Stderr

(* C4: for every stream, the payloads of the stream's events in the combined
   log, concatenated, are byte for byte what the child wrote to the stream
   and what the capture writer received; the line records of the stream are
   that content split at newlines, the newlines removed. *)
C4_SameContentEverywhere ==
    \A s \in StreamSet :
        (AnyExit /\ Wired(s)) =>
            /\ Join(Payloads(EventsOf(s))) = ChildOutput(s)
            /\ Join(captured[s]) = ChildOutput(s)
            /\ Payloads(RecordsOf(s)) = AllLines(ChildOutput(s))

\* A relay has taken every byte written to its stream.
Fed(s) == pump[s].pc = "idle"

(* C5: of k newline-terminated lines followed by a non-empty remainder,
   exactly the k lines are delivered while the data is fed, several from one
   feed that holds several terminators; the remainder is delivered as one more
   record when the relay is closed, which a Wait() after exit status 0 does. *)
C5_LinesThenRemainder ==
    \A s \in StreamSet :
        Wired(s) =>
            /\ (Fed(s) /\ ~relayClosed[s]) =>
                   /\ Payloads(RecordsOf(s)) = Terminated(ChildOutput(s))
                   /\ pending[s] = Unterminated(ChildOutput(s))
            /\ relayClosed[s] =>
                   /\ Payloads(RecordsOf(s)) = AllLines(ChildOutput(s))
                   /\ pending[s] = <<>>
            /\ CleanExit => relayClosed[s]

C5_Witness ==
    /\ Wired(Stdout)
    /\ relayClosed[Stdout]
    /\ written[Stdout] = <<<<NL, NL, "a">>>>
    /\ Payloads(RecordsOf(Stdout)) = <<<<>>, <<>>, <<"a">>>>

(* C6: a relay whose pending buffer is empty at close delivers nothing then:
   output that ends with its only newline gives exactly one record, the newline
   stripped, and a child that prints nothing gives Launch and Finish only. *)
C6_EmptyCloseSilent ==
    (CleanExit /\ logger # "nil") =>
        /\ \A s \in StreamSet :
               (Wired(s) /\ Unterminated(ChildOutput(s)) = <<>>) =>
                   /\ Len(RecordsOf(s)) = Len(Terminated(ChildOutput(s)))
                   /\ Len(Terminated(ChildOutput(s))) = 1 =>
                          Payloads(RecordsOf(s)) = <<Front(ChildOutput(s))>>
        /\ (\A s \in StreamSet : ChildOutput(s) = <<>>) =>
               log = <<LogRecord(Launch, <<"l", "a", "u", "n", "c", "h">>),
                       LogRecord(Finish, <<"e", "x", "i", "t", " ", "0">>)>>

C6_Witness ==
    /\ CleanExit
    /\ logger # "nil"
    /\ Wired(Stdout)
    /\ Wired(Stderr)
    /\ ChildOutput(Stdout) = <<"a", "a", NL>>
    /\ ChildOutput(Stderr) = <<>>
    /\ Len(log) = 3

(* C7: for every n > 0, Wait() on a child that exits with code n returns an
   ExitStatusError with that code: IsExitStatus(err) holds and
   GetExitStatus(err) = n. *)
C7_ExitStatusError ==
    (lastCall = "Wait" /\ cmdWaitErr = "ExitError" /\ NonZeroExit) =>
        /\ IsExitStatus(err)
        /\ GetExitStatus(err) = exitInfo.code

\* The two ways Wait() reports that the command could not be waited for.
IsWaitError(e) ==
    /\ e.type # "nil"
    /\ ~e.hasCode
    /\ e.message \in {"unable to start command", "unable to wait command execution"}

(* C8: a wait outcome that is no controlled non-zero exit (the child was
   killed by a signal, or the wait itself failed) comes back from Wait() as a
   wait error, never as an error that carries an exit code, never as success. *)
C8_WaitErrorDistinct ==
    (/\ lastCall = "Wait"
     /\ \/ cmdWaitErr = "other"
        \/ cmdWaitErr = "ExitError" /\ exitInfo.kind = "signal") =>
        IsWaitError(err)

Numeral == <<"0", "1", "2", "3", "4", "5", "6", "7", "8", "9">>

FinishPositions == {i \in 1..Len(log) : log[i].Stream = Finish}

(* C9: with a logger, Wait() on a child that exits with a code n > 0 delivers
   exactly one Finish record, its payload "exit n", before it returns the
   error. *)
C9_FinishOnFailure ==
    (NonZeroExit /\ logger # "nil" /\ exitInfo.code <= 9) =>
        /\ Cardinality(FinishPositions) = 1
        /\ log[Len(log)] =
               LogRecord(Finish, <<"e", "x", "i", "t", " ", Numeral[exitInfo.code + 1]>>)
        /\ err # NoError

C9_Witness ==
    /\ NonZeroExit
    /\ logger # "nil"
    /\ exitInfo.code = 2
    /\ lastCall = "Wait"
    /\ log[Len(log)].Data = <<"e", "x", "i", "t", " ", "2">>
    /\ Len(RecordsOf(Stdout)) >= 1

(* C10: after the child has ended, Wait() closes both line relays before it
   looks at the exit status, so an unterminated trailing remainder reaches the
   logger whether the exit status is zero or not. *)
C10_RemainderAlwaysFlushed ==
    \A s \in StreamSet :
        (AnyExit /\ Wired(s) /\ Unterminated(ChildOutput(s)) # <<>>) =>
            /\ relayClosed[s]
            /\ RecordsOf(s) # <<>>
            /\ RecordsOf(s)[Len(RecordsOf(s))].Data = Unterminated(ChildOutput(s))

\* The errors Start() returns.
StartErrors ==
    {KarmaFormat("can't get stdin pipe from command"), KarmaFormat("can't start command")}

(* C11: Run() calls Start() and then Wait(). When Start() fails, Run() returns
   the error of Start() and never calls Wait(): no Finish record is logged and
   no relay is closed. When Start() succeeds, Run() returns what Wait()
   returns. *)
C11_RunStartThenWait ==
    result.call = "Run" =>
        /\ pc \in {"startFailed", "done"}
        /\ pc = "startFailed" =>
               /\ ~result.waited
               /\ result.err \in StartErrors
               /\ FinishPositions = {}
               /\ \A s \in StreamSet : ~relayClosed[s]
        /\ pc = "done" =>
               /\ result.waited
               /\ result.err = WaitError(CommandWaitError(exitInfo), exitInfo)

C11_Witness ==
    /\ result.call = "Run"
    /\ pc = "startFailed"
    /\ result.err = KarmaFormat("can't start command")
    /\ log = <<LogRecord(Launch, <<"l", "a", "u", "n", "c", "h">>)>>
    /\ failedWaits = 1

\* The errors Output() returns for a capture target it could not read.
ReadErrors ==
    {KarmaFormat("can't read execution stdout"), KarmaFormat("can't read execution stderr")}

(* C12: Output() performs Run() and reads both capture targets to their end:
   it returns what each target captured together with the error of Run(), or,
   when a read fails, a read error and no output. Stated for the calls whose
   Run() went through Start() and Wait(). *)
C12_OutputReturnsCaptured ==
    (result.call = "Output" /\ result.waited) =>
        /\ ~result.panic
        /\ \/ /\ result.err \in ReadErrors
              /\ result.stdout = <<>>
              /\ result.stderr = <<>>
           \/ /\ result.stdout = Join(captured[Stdout])
              /\ result.stderr = Join(captured[Stderr])
              /\ result.err = IF pc = "done"
                              THEN WaitError(CommandWaitError(exitInfo), exitInfo)
                              ELSE err

(* C14: the error Wait() returns for a non-zero exit carries the exit code,
   and carries an excerpt exactly when the combined log holds an event; the
   excerpt is the payloads of all events, of both streams, joined in the order
   of the log, control sequences removed, then the white space around it. *)
C14_ErrorExcerpt ==
    (lastCall = "Wait" /\ NonZeroExit) =>
        /\ err.hasCode
        /\ err.code = exitInfo.code
        /\ err.hasExcerpt <=> combinedStreams # <<>>
        /\ err.hasExcerpt =>
               /\ err.excerpt = TrimSpace(StripAnsi(Join(Payloads(combinedStreams))))
               /\ err.excerpt # <<>> =>
                      /\ err.excerpt[1] # NL
                      /\ err.excerpt[Len(err.excerpt)] # NL

C14_Witness ==
    /\ lastCall = "Wait"
    /\ NonZeroExit
    /\ Len(combinedStreams) = 3
    /\ combinedStreams[1] = StreamData(Stderr, <<ESC>>)
    /\ combinedStreams[2] = StreamData(Stdout, <<"m">>)
    /\ combinedStreams[3] = StreamData(Stderr, <<NL>>)
    /\ err.hasExcerpt
    /\ err.excerpt = <<>>

\* What an execution shows whose logger ignores every record: each stream
\* that has a capture target is captured and recorded write by write, and the
\* error of a non-zero exit carries an excerpt exactly when something was
\* written.
NoOpLoggerOutcome ==
    /\ \A s \in StreamSet :
           (Started /\ target[s] # "nil") =>
               /\ captured[s] = Delivered(s, BeforeCapture)
               /\ Payloads(EventsOf(s)) = Delivered(s, BeforeRecorder)
    /\ (lastCall = "Wait" /\ NonZeroExit) =>
           /\ err.hasCode
           /\ err.hasExcerpt <=> \E s \in StreamSet : written[s] # <<>>
           /\ err.excerpt = Excerpt(Payloads(combinedStreams))

(* C13, as stated: an execution without a logger, made with a nil logger or
   switched off by NoLog(), shows what an execution shows whose logger ignores
   every record: the same captured output, the same combined log, the same
   error. Stated for the executions that Wait() has returned from. *)
C13_NoLoggerIsNoOp ==
    (cmdState = "waited" /\ (given = "nil" \/ logger = "nil")) => NoOpLoggerOutcome

(* C13, amended: an execution made with a nil logger, for which NoLog() is not
   called, has the no-op logger New() puts in its place and shows what any
   execution shows whose logger was given. After NoLog() the combined log stays
   empty and the capture targets alone receive the output. *)
C13_NilLoggerAtNew ==
    /\ logger = NewLogger(given) =>
           /\ logger # "nil"
           /\ Started => \A s \in StreamSet : cmdOut[s] = "multi"
           /\ NoOpLoggerOutcome
    /\ logger = "nil" =>
           /\ combinedStreams = <<>>
           /\ log = <<>>
           /\ \A s \in StreamSet : captured[s] = Delivered(s, {"output"})

C13_Witness ==
    /\ given = "nil"
    /\ logger = "noop"
    /\ lastCall = "Wait"
    /\ NonZeroExit
    /\ err.hasExcerpt
    /\ Len(combinedStreams) = 2
    /\ Len(RecordsOf(Stdout)) = 1

\* A pump is inside the Logger call for a line of its stream.
InLogger(s) == pump[s].pc = "emit"

(* C15: the line records are emitted one at a time under the stream mutex the
   two relays share: the Logger calls of the stdout pump and of the stderr pump
   never overlap, and each call carries one whole line of one stream, tagged
   with that stream. *)
C15_OneLineAtATime ==
    /\ ~(InLogger(Stdout) /\ InLogger(Stderr))
    /\ \A s \in StreamSet :
           /\ InLogger(s) =>
                  /\ streamMutex = s
                  /\ pump[s].line # <<>>
                  /\ pump[s].line[Len(pump[s].line)] = NL
                  /\ \A i \in 1..(Len(pump[s].line) - 1) : pump[s].line[i] # NL
           /\ Wired(s) =>
                  \A i \in 1..Len(RecordsOf(s)) :
                      /\ i <= Len(AllLines(ChildOutput(s)))
                      /\ RecordsOf(s)[i] = LogRecord(s, AllLines(ChildOutput(s))[i])
                      /\ \A j \in 1..Len(RecordsOf(s)[i].Data) : RecordsOf(s)[i].Data[j] # NL

C15_Witness ==
    /\ InLogger(Stdout)
    /\ pump[Stderr].pc = "scan"
    /\ HasLine(pending[Stderr])
    /\ pump[Stdout].line = <<"a", NL>>

IsPrefix(p, q) == Len(p) <= Len(q) /\ p = SubSeq(q, 1, Len(p))

(* C16: however the two pumps interleave, the events of one stream stand in
   the combined log in the order of the stream's writes, and the line records
   of one stream reach the logger in the order of the stream's lines. The
   order of stdout against stderr is left open: it may differ between the
   combined log and the logger. *)
C16_OrderWithinStream ==
    \A s \in StreamSet :
        Wired(s) =>
            /\ IsPrefix(Payloads(EventsOf(s)), written[s])
            /\ IsPrefix(Payloads(RecordsOf(s)), AllLines(ChildOutput(s)))

C16_Witness ==
    /\ combinedStreams = <<StreamData(Stdout, <<"a">>), StreamData(Stdout, <<NL>>),
                           StreamData(Stderr, <<NL>>)>>
    /\ Len(log) = 3
    /\ log[2] = LogRecord(Stderr, <<>>)
    /\ log[3] = LogRecord(Stdout, <<"a">>)

\* Every write of the child to a stream is in the combined log.
HoldsEveryWrite(s) == Payloads(EventsOf(s)) = written[s]

(* C17, as stated: once Wait() has returned for a started command, the
   combined log holds every write of the process. *)
C17_LogCompleteAfterWait ==
    cmdState = "waited" => \A s \in StreamSet : HoldsEveryWrite(s)

(* C17, amended: Wait() on a started command returns only after the child has
   ended and both pumps have returned from their last Write; from then on the
   combined log holds every write to a stream that has a recorder (a logger is
   set and the stream kept its capture target) and never changes again, while
   before it only grows at its end; and once the child has ended, Wait()
   returns. *)
C17_WaitAfterDrain ==
    /\ [](cmdState = "waited" =>
             /\ PumpsDone
             /\ exitInfo # NotExited
             /\ \A s \in StreamSet : Wired(s) => HoldsEveryWrite(s))
    /\ [][IsPrefix(combinedStreams, combinedStreams')]_vars
    /\ [][cmdState = "waited" => combinedStreams' = combinedStreams]_vars
    /\ (cmdState = "exited" ~> cmdState = "waited")

C17_Witness ==
    /\ cmdState = "waited"
    /\ Wired(Stdout)
    /\ Wired(Stderr)
    /\ Len(written[Stdout]) = 2
    /\ Len(written[Stderr]) = 1
    /\ Len(combinedStreams) = 3

(* C18: a GetStreamsData() made while the pumps append is synchronized with
   the appends: what it returns is a sequence of events that were written,
   a prefix of the combined log as it is once the pumps are done. *)
C18_SnapshotIsPrefix ==
    (snapshot.taken /\ PumpsDone) => IsPrefix(snapshot.data, combinedStreams)


\* One Start() and one Wait() around a child whose streams all go through
\* the pumps.
NextStreams ==
    \/ NoLog
    \/ \E stdinPipeOk \in BOOLEAN, startOk \in BOOLEAN : CallStart(stdinPipeOk, startOk)
    \/ \E s \in StreamSet, chunk \in Chunks : PumpWrite(s, chunk)
    \/ WriteSteps
    \/ ProcExit
    \/ \E outcome \in ExitOutcomes : CallWait(outcome)

SpecStreams == Init /\ [][NextStreams]_vars

\* Start() and Wait() called in any order and any number of times around the
\* child and the pumps.
NextCloser ==
    \/ NoLog
    \/ \E stdinPipeOk \in BOOLEAN, startOk \in BOOLEAN : CallStart(stdinPipeOk, startOk)
    \/ CallStartAgain
    \/ \E s \in StreamSet, chunk \in ByteChunks : PumpWrite(s, chunk)
    \/ WriteSteps
    \/ ProcExit
    \/ \E outcome \in ExitOutcomes : CallWait(outcome)
    \/ CallWaitFailed

SpecCloser == Init /\ [][NextCloser]_vars

(* --------------------------- C19: payload copy ------------------------- *)

\* The events of stream s whose write the pump has followed with another
\* read into its buffer.
Overtaken(s) ==
    {k \in 1..Len(EventsOf(s)) : k < Len(written[s])}

\* C19: the recorder stores a copy of each payload: an event of the combined
\* log still holds the bytes of its own write after the pump has reused its
\* buffer for later writes of the stream.
C19_PayloadIsACopy ==
    \A s \in StreamSet :
        \A k \in Overtaken(s) : EventsOf(s)[k].Data = written[s][k]

\* Stdout was written twice with different bytes, both writes are recorded,
\* and the first event holds the first bytes.
C19_Witness ==
    /\ written[Stdout] = <<<<"a">>, <<NL>>>>
    /\ Len(EventsOf(Stdout)) = 2
    /\ EventsOf(Stdout)[1].Data = <<"a">>
    /\ backing = <<"own", "own">>


(* ------------------------------ C20: closer ---------------------------- *)

\* C20: over any sequence of Start() and Wait() calls the closer runs at most
\* once, and only in a Wait() that found the child exited with status 0: a
\* relay is closed only by that one run, no run happens on a non-zero exit or
\* on a failed wait, and a stream's remainder reaches the logger at most once
\* (the records of a stream never outnumber its lines).
C20_CloserOnceAfterSuccess ==
    /\ closerRuns <= 1
    /\ closerRuns = 1 => CleanExit
    /\ (cmdState = "waited" /\ ~CleanExit) => closerRuns = 0
    /\ \A s \in StreamSet :
           /\ relayClosed[s] => closerRuns = 1
           /\ Len(RecordsOf(s)) <= Len(AllLines(Join(fed[s])))

\* The closer ran once and delivered the remainder of stdout; then Start()
\* was called again, which replaced the closer, and a second Wait() failed.
C20_Witness ==
    /\ closerRuns = 1
    /\ relayClosed[Stdout]
    /\ Payloads(RecordsOf(Stdout)) = <<<<"a">>>>
    /\ rewired
    /\ lastCall = "Wait"
    /\ cmdWaitErr = "other"


(* ------------------------------ C21: stdin ----------------------------- *)

\* SetStdin or no SetStdin, then Start() and Wait() around a child that
\* copies its stdin to its stdout.
NextStdin ==
    \/ NoLog
    \/ \E source \in Chunks : SetStdinTo(source)
    \/ \E stdinPipeOk \in BOOLEAN, startOk \in BOOLEAN : CallStart(stdinPipeOk, startOk)
    \/ StdinCopy
    \/ \E chunk \in Chunks : StdinWrite(chunk)
    \/ StdinClose
    \/ \E n \in 1..MaxBytes : EchoWrite(n)
    \/ WriteSteps
    \/ EchoExit
    \/ \E outcome \in ExitOutcomes : CallWait(outcome)

SpecStdin == Init /\ [][NextStdin]_vars

\* C21: with a source set by SetStdin the child reads that source and no
\* stdin pipe is made; without one, Start() makes a stdin pipe and what is
\* written to GetStdin() reaches the child; and once a child that copies its
\* stdin to its stdout has been waited for, the captured stdout is the
\* supplied stdin.
C21_StdinRoundTrip ==
    /\ stdin = "source" =>
           /\ IsPrefix(childStdin.data, stdinSource)
           /\ childStdin.eof => childStdin.data = stdinSource
    /\ Started => stdin \in {"source", "pipe"}
    /\ stdin = "pipe" => childStdin.data = stdinSource
    /\ cmdState = "waited" => Join(captured[Stdout]) = stdinSource

\* A source of three bytes was supplied, no pipe was made, and the child's
\* copy of it came back in two writes.
C21_Witness ==
    /\ cmdState = "waited"
    /\ stdin = "source"
    /\ stdinSource = <<"a", NL, "a">>
    /\ Len(written[Stdout]) = 2
    /\ Join(captured[Stdout]) = <<"a", NL, "a">>


(* ----------------------- C22: executions side by side ------------------ *)

\* Two executions, started and written to in any interleaving.
NextPeers ==
    \/ \E e \in Executions : PeerStart(e)
    \/ \E e \in Executions, chunk \in ByteChunks : PeerWrite(e, chunk)
    \/ \E e \in Executions : PeerRecordLock(e)
    \/ \E e \in Executions : PeerRecordAppend(e)
    \/ \E e \in Executions : PeerOutputWrite(e)
    \/ \E e \in Executions : PeerRelayWrite(e)
    \/ \E e \in Executions : PeerRelayEmit(e)

SpecPeers == Init /\ [][NextPeers]_vars

\* The mutexes of e are free or held by e, so e never waits for the other
\* execution.
OwnLocks(e) ==
    \A k \in MutexKinds : peers.held[<<e, k>>] \in {Free, e}

\* The combined log, the stdout buffer, the pending buffer and the delivered
\* lines of e are after the step what they were before it.
Untouched(e) ==
    /\ peers'.combinedStreams[e] = peers.combinedStreams[e]
    /\ peers'.stdout[e] = peers.stdout[e]
    /\ peers'.pending[e] = peers.pending[e]
    /\ peers'.lines[e] = peers.lines[e]

\* The pump of e is inside a Write call, past the recorder's Lock.
InWrite(e) == peers.pump[e].pc \in {"append", "output", "relay", "emit"}

\* C22: two executions that run at once share no mutable state: the mutexes
\* of an execution are never held by the other, so no step of one waits on a
\* lock of the other; and a step that changes the combined log, the capture
\* buffer or the pending buffer of an execution is a step of that
\* execution's own pump and leaves the other execution as it was.
C22_NoSharedState ==
    /\ [](\A e \in Executions : OwnLocks(e))
    /\ [][\A e \in Executions :
              ~Untouched(e) =>
                  /\ InWrite(e)
                  /\ \A o \in Executions \ {e} :
                         Untouched(o) /\ peers'.pump[o] = peers.pump[o]]_vars

\* Both executions are inside streamWriter.Write at once, each holding its
\* own combined mutex, the first with an event already in its log.
C22_Witness ==
    /\ peers.held[<<"one", "combined">>] = "one"
    /\ peers.held[<<"two", "combined">>] = "two"
    /\ Len(peers.combinedStreams["one"]) = 1
    /\ peers.combinedStreams["two"] = <<>>
    /\ peers.lines["one"] = <<>>


(* --------------------------- C23: failing sink ------------------------- *)

\* Start() and the Write calls of the pumps, with capture writers of the
\* caller that may fail.
NextMux ==
    \/ \E s \in StreamSet : SetStd(s)
    \/ \E stdinPipeOk \in BOOLEAN, startOk \in BOOLEAN : CallStart(stdinPipeOk, startOk)
    \/ \E s \in StreamSet, chunk \in Chunks : PumpWrite(s, chunk)
    \/ WriteSteps
    \/ \E s \in StreamSet, n \in 0..MaxBytes, e \in {"nil", "error"} :
           OutputWriteFails(s, [n |-> n, err |-> e])

SpecMux == Init /\ [][NextMux]_vars

\* The writes of stream s before the last one.
Earlier(s) == Front(written[s])

\* C23: a Write of a stream's multiplexer goes to the recorder, then the
\* capture writer, then the line relay. When the capture writer fails, the
\* Write returns its error (io.ErrShortWrite for a short count), the recorder
\* has the whole write, the capture writer what it took of it, and the relay
\* nothing of it, while every earlier write is whole in all three. A Write
\* ends without error only when all three sinks have all of it.
C23_FirstFailureStops ==
    \A s \in StreamSet :
        cmdOut[s] = "multi" =>
            /\ Len(fed[s]) <= Len(captured[s])
            /\ Len(captured[s]) <= Len(EventsOf(s))
            /\ pump[s].pc = "failed" =>
                   /\ pump[s].err \in {"error", "ErrShortWrite"}
                   /\ Payloads(EventsOf(s)) = written[s]
                   /\ Front(captured[s]) = Earlier(s)
                   /\ IsPrefix(captured[s][Len(captured[s])], pump[s].data)
                   /\ pump[s].err = "ErrShortWrite" =>
                          captured[s][Len(captured[s])] # pump[s].data
                   /\ fed[s] = Earlier(s)
            /\ pump[s].pc = "idle" =>
                   /\ pump[s].err = "nil"
                   /\ Payloads(EventsOf(s)) = written[s]
                   /\ captured[s] = written[s]
                   /\ fed[s] = written[s]

\* The second write to stdout failed in the caller's writer after one byte of
\* two: the combined log has both writes, the relay only the first.
C23_Witness ==
    /\ cmdOut[Stdout] = "multi"
    /\ pump[Stdout].pc = "failed"
    /\ pump[Stdout].err = "ErrShortWrite"
    /\ written[Stdout] = <<<<NL>>, <<"a", "a">>>>
    /\ captured[Stdout] = <<<<NL>>, <<"a">>>>
    /\ fed[Stdout] = <<<<NL>>>>
    /\ Len(EventsOf(Stdout)) = 2


(* ------------------------ C24: blocked capture writer ------------------ *)

\* The steps of the pumps when a capture writer of the caller never returns
\* from Write: only the internal buffers take their writes.
BlockedWriteSteps ==
    \/ \E s \in StreamSet : RecordLock(s)
    \/ \E s \in StreamSet : RecordAppend(s)
    \/ \E s \in StreamSet : target[s] = "buffer" /\ OutputWrite(s)
    \/ \E s \in StreamSet : RelayWrite(s)
    \/ \E s \in StreamSet : RelayRead(s)
    \/ \E s \in StreamSet : RelayEmit(s)

NextBlocked ==
    \/ \E s \in StreamSet : SetStd(s)
    \/ \E stdinPipeOk \in BOOLEAN, startOk \in BOOLEAN : CallStart(stdinPipeOk, startOk)
    \/ \E s \in StreamSet, chunk \in Chunks : PumpWrite(s, chunk)
    \/ BlockedWriteSteps

\* The scheduler runs every goroutine that can take a step.
SpecBlocked == Init /\ [][NextBlocked]_vars /\ WF_vars(BlockedWriteSteps)

\* The pump of s holds at most one of the two mutexes, and none while it is
\* in the Write of the capture writer.
LockDiscipline(s) ==
    /\ ~(combinedMutex = s /\ streamMutex = s)
    /\ pump[s].pc = "output" => (combinedMutex # s /\ streamMutex # s)
    /\ combinedMutex = s <=> pump[s].pc = "append"
    /\ streamMutex = s <=> pump[s].pc = "emit"

\* A Write call on a stream whose capture target is the internal buffer
\* returns.
Completes(s) ==
    (target[s] = "buffer" /\ pump[s].pc # "idle") ~> (pump[s].pc = "idle")

\* C24: a pump never holds the combined-log mutex and the relay mutex
\* together and holds neither while it writes to the capture writer; so the
\* pumps do not deadlock, and while the capture writer of one stream blocks
\* for ever, every Write of the other stream still gets its event into the
\* combined log and its bytes into its relay, and returns.
C24_NoLockAcrossCapture ==
    /\ [](\A s \in StreamSet : LockDiscipline(s))
    /\ Completes(Stdout)
    /\ Completes(Stderr)

\* The capture writer of stdout blocks in the first write of stdout; two
\* writes of stderr after it are in the combined log and in stderr's relay.
C24_Witness ==
    /\ target[Stdout] = "custom"
    /\ pump[Stdout].pc = "output"
    /\ pump[Stderr].pc = "idle"
    /\ Len(combinedStreams) = 3
    /\ combinedStreams[1].Stream = Stdout
    /\ Len(fed[Stderr]) = 2
    /\ captured[Stderr] = written[Stderr]


(* ------------------- C25: the split of the writes --------------------- *)

\* The writes a child may issue: up to MaxPeerWrites bytes in one write.
WholeChunks == SeqsUpTo(MaxPeerWrites) \ {<<>>}

\* Execution "one" runs a child that hands all its output over in one write.
WholeWrite(chunk) ==
    /\ peers.stdout["one"] = <<>>
    /\ PeerWrite("one", chunk)

\* Execution "two" runs a child that hands its output over in any pieces.
SplitWrite(chunk) ==
    /\ Len(Join(peers.stdout["two"])) + Len(chunk) <= MaxPeerWrites
    /\ PeerWrite("two", chunk)

NextSplit ==
    \/ \E e \in Executions : PeerStart(e)
    \/ \E chunk \in WholeChunks : WholeWrite(chunk)
    \/ \E chunk \in WholeChunks : SplitWrite(chunk)
    \/ \E e \in Executions : PeerRecordLock(e)
    \/ \E e \in Executions : PeerRecordAppend(e)
    \/ \E e \in Executions : PeerOutputWrite(e)
    \/ \E e \in Executions : PeerRelayWrite(e)
    \/ \E e \in Executions : PeerRelayEmit(e)

SpecSplit == Init /\ [][NextSplit]_vars

\* No Write of e is under way.
BetweenWrites(e) == peers.pump[e].pc = "idle"

(* C25: the line records of a stream are a function of the bytes written to
   it, not of how the child split them into writes: two children that wrote
   the same bytes, one in a single write and one in pieces, got the same
   records and hold the same pending bytes. Every terminated line is one
   record carrying the whole line, whether its bytes came in one write or in
   several, and the bytes after the last terminator stay pending. *)
C25_SplitIndependent ==
    /\ (/\ \A e \in Executions : BetweenWrites(e)
        /\ Join(peers.stdout["one"]) = Join(peers.stdout["two"]))
           => /\ peers.lines["one"] = peers.lines["two"]
              /\ peers.pending["one"] = peers.pending["two"]
    /\ \A e \in Executions :
           BetweenWrites(e) =>
               /\ Payloads(peers.lines[e]) = Terminated(Join(peers.stdout[e]))
               /\ \A i \in 1..Len(peers.lines[e]) : peers.lines[e][i].Stream = Stdout
               /\ peers.pending[e] = Unterminated(Join(peers.stdout[e]))

\* One child wrote a line in one write, the other wrote the same line in two
\* writes, the terminator in the second.
C25_Witness ==
    /\ \A e \in Executions : BetweenWrites(e)
    /\ peers.stdout["one"] = <<<<"a", NL>>>>
    /\ peers.stdout["two"] = <<<<"a">>, <<NL>>>>
    /\ peers.lines["two"] = <<LogRecord(Stdout, <<"a">>)>>
    /\ peers.pending["two"] = <<>>


(* ---------------- C26: Output() and the capture targets --------------- *)

(* C26: Output() returns normally whatever capture targets the caller set up,
   the default buffers, a writer given with SetStdout/SetStderr, or none
   after StdoutPipe/StderrPipe: it never ends in a panic while it reads the
   targets. *)
C26_OutputReturnsNormally ==
    result.call = "Output" => ~result.panic


(* ------------------- C27: a Start() that fails ------------------------ *)

\* A caller that configures, calls Start() and calls Wait() whatever Start()
\* returned, around a child that writes a byte at a time.
NextLaunch ==
    \/ NoLog
    \/ SetStdin
    \/ \E s \in StreamSet : StdPipe(s)
    \/ \E stdinPipeOk \in BOOLEAN, startOk \in BOOLEAN : CallStart(stdinPipeOk, startOk)
    \/ \E s \in StreamSet, chunk \in ByteChunks : PipeWrite(s, chunk)
    \/ \E s \in StreamSet, chunk \in ByteChunks : PumpWrite(s, chunk)
    \/ WriteSteps
    \/ ProcExit
    \/ \E outcome \in ExitOutcomes : CallWait(outcome)
    \/ CallWaitFailed

SpecLaunch == Init /\ [][NextLaunch]_vars

(* C27: Start() logs Launch before it sets up the streams and before it
   starts the process. After a Start() that failed, at the stdin pipe or at
   the spawn, the logger has received the Launch record and nothing else,
   the error Start() returned is a start error, there is no process, the
   combined log is empty, and this stays so through every later Wait(): no
   Finish record follows. *)
C27_FailedStartLogsLaunchOnly ==
    pc = "startFailed" =>
        /\ log = Logged(<<LaunchRecord>>)
        /\ logger # "nil" => log = <<LaunchRecord>>
        /\ lastCall = "Start" => err \in StartErrors
        /\ cmdState = "new"
        /\ combinedStreams = <<>>
        /\ \A s \in StreamSet : written[s] = <<>> /\ captured[s] = <<>>

\* Start() failed with a logger set, and the caller has called Wait() since.
C27_Witness ==
    /\ pc = "startFailed"
    /\ logger # "nil"
    /\ failedWaits > 0
    /\ lastCall = "Wait"
    /\ log = <<LaunchRecord>>


(* ---------------------------- C28: NoStdLog() ------------------------- *)

\* A caller that may call NoLog() and NoStdLog() before Start(), around a
\* child that writes a byte at a time.
NextNoStdLog ==
    \/ NoLog
    \/ NoStdLog
    \/ \E stdinPipeOk \in BOOLEAN, startOk \in BOOLEAN : CallStart(stdinPipeOk, startOk)
    \/ StartPanics
    \/ \E s \in StreamSet, chunk \in ByteChunks : PumpWrite(s, chunk)
    \/ WriteSteps
    \/ ProcExit
    \/ \E outcome \in ExitOutcomes : CallWait(outcome)

SpecNoStdLog == Init /\ [][NextNoStdLog]_vars

(* C28: after NoStdLog() the logger gets the Launch and Finish records and no
   line record of stdout or stderr, and the execution runs as it does without
   NoStdLog(): Start() goes through, and what the child wrote to a stream is
   in the stream's capture target and in the combined log once the pump has
   returned from its Write calls. *)
C28_NoStdLogKeepsCapture ==
    logger \in {"filtered", "wrapsNil"} =>
        /\ pc # "panicked"
        /\ \A i \in 1..Len(log) : log[i].Stream \in {Launch, Finish}
        /\ \A s \in StreamSet :
               pump[s].pc = "idle" =>
                   /\ Join(captured[s]) = Join(written[s])
                   /\ Payloads(EventsOf(s)) = written[s]


(* ------------------ C29: a stream handed out as a pipe ---------------- *)

\* StdoutPipe() / StderrPipe() was called for the stream.
PipedOut(s) == target[s] = "nil"

\* Nothing of the execution has seen a byte of stream s.
Bypassed(s) ==
    /\ EventsOf(s) = <<>>
    /\ RecordsOf(s) = <<>>
    /\ captured[s] = <<>>
    /\ fed[s] = <<>>
    /\ pump[s].pc = "idle"

\* Stream s is captured, recorded and logged as in an execution without pipes.
AsUsual(s) ==
    /\ cmdOut[s] = (IF logger # "nil" THEN "multi" ELSE "raw")
    /\ pipeData[s] = <<>>
    /\ pump[s].pc = "idle" =>
           /\ Join(captured[s]) = Join(written[s])
           /\ logger # "nil" => Payloads(EventsOf(s)) = written[s]
    /\ (CleanExit /\ logger # "nil") =>
           Payloads(RecordsOf(s)) = AllLines(Join(written[s]))

(* C29: a stream for which StdoutPipe() or StderrPipe() succeeded is left
   alone by Start(): the command keeps writing it to the pipe, and what the
   child writes to it reaches the pipe's reader and nothing else, no event of
   the combined log, no line record, no capture target. A stream that was not
   handed out is wired, captured, recorded and logged as usual. *)
C29_PipedStreamBypasses ==
    \A s \in StreamSet :
        /\ PipedOut(s) =>
               /\ cmdOut[s] = "pipe"
               /\ pipeData[s] = Join(written[s])
               /\ Bypassed(s)
        /\ (~PipedOut(s) /\ Started) => AsUsual(s)

\* Stdout was handed out as a pipe; the child wrote to both streams and ended:
\* the pipe holds the bytes of stdout, the logger the line of stderr.
C29_Witness ==
    /\ PipedOut(Stdout) /\ ~PipedOut(Stderr)
    /\ CleanExit
    /\ pipeData[Stdout] = <<NL>>
    /\ Join(captured[Stderr]) = <<"a", NL>>
    /\ RecordsOf(Stderr) = <<LogRecord(Stderr, <<"a">>)>>
    /\ RecordsOf(Stdout) = <<>>


(* ------------------- C30: FormatShellCommand -------------------------- *)

\* The backtick, the byte 0x60.
Backtick == "\\x60"

\* The characters of the arguments: a letter, a blank, the four characters
\* the formatter escapes, the single quote and the backslash.
ShellChars == {"a", " ", "$", Backtick, "\"", "!", "'", "\\"}

\* The characters of the model that the class reSpecialChars matches: the
\* dollar, the backtick, the double quote, the bang, the single quote, \s.
reSpecialChars == {"$", Backtick, "\"", "!", "'", " "}

\* The characters of the model that the class reSpecialCharsEscape matches:
\* the dollar, the backtick, the double quote, the bang.
reSpecialCharsEscape == {"$", Backtick, "\"", "!"}

\* regexp.MatchString: some character of arg is in the class.
MatchString(class, arg) == \E i \in 1..Len(arg) : arg[i] \in class

\* reSpecialCharsEscape.ReplaceAllString(arg, \$0): every match is replaced
\* by a backslash and the match.
RECURSIVE ReplaceAllString(_)
ReplaceAllString(arg) ==
    IF arg = <<>> THEN <<>>
    ELSE (IF Head(arg) \in reSpecialCharsEscape
          THEN <<"\\", Head(arg)>>
          ELSE <<Head(arg)>>) \o ReplaceAllString(Tail(arg))

\* A formatter that emits every argument as it is.
SafeArgUnquoted(arg) == arg

\* One turn of the loop of FormatShellCommand: the text appended to safe.
SafeArg(arg) ==
    IF MatchString(reSpecialChars, arg)
    THEN <<"\"">> \o ReplaceAllString(arg) \o <<"\"">>
    ELSE arg

\* strings.Join(parts, sep).
RECURSIVE StringsJoin(_, _)
StringsJoin(parts, sep) ==
    IF parts = <<>> THEN <<>>
    ELSE IF Len(parts) = 1 THEN Head(parts)
    ELSE Head(parts) \o sep \o StringsJoin(Tail(parts), sep)

FormatShellCommand(command) ==
    StringsJoin([i \in 1..Len(command) |-> SafeArg(command[i])], <<" ">>)

\* The name of a stream, as %s prints it.
StreamChars(stream) ==
    IF stream = Launch THEN <<"l", "a", "u", "n", "c", "h">>
    ELSE IF stream = Finish THEN <<"f", "i", "n", "i", "s", "h">>
    ELSE IF stream = Stdout THEN <<"s", "t", "d", "o", "u", "t">>
    ELSE <<"s", "t", "d", "e", "r", "r">>

\* %-6s: the text, then blanks up to a width of six.
RECURSIVE PadRight(_)
PadRight(text) == IF Len(text) >= 6 THEN text ELSE PadRight(Append(text, " "))

\* The line a Logger made by Loggerf hands to the function it wraps.
LoggerfLine(command, stream, data) ==
    IF stream = Launch
    THEN PadRight(StreamChars(stream)) \o <<" ", "|", " ">> \o FormatShellCommand(command)
    ELSE IF stream = Finish
    THEN PadRight(StreamChars(stream)) \o <<" ", "|", " ">> \o FormatShellCommand(command)
         \o <<" ", "-", ">", " ">> \o data
    ELSE PadRight(StreamChars(stream)) \o <<" ", "|", " ", " ">> \o data

\* The argument vectors of at most n characters, an argument counting as one
\* character more than it holds.
RECURSIVE ArgVectors(_)
ArgVectors(n) ==
    IF n <= 0 THEN {<<>>}
    ELSE {<<>>} \cup
         UNION {{<<arg>> \o rest : arg \in [1..k -> ShellChars],
                                   rest \in ArgVectors(n - k - 1)} : k \in 0..(n - 1)}

\* An execution of any command of the bound, nothing rendered or logged yet.
InitShell ==
    /\ NewExecution("set")
    /\ \E command \in ArgVectors(MaxCommandSize) :
           shell = [NoShell EXCEPT !.command = command]

ShellFrame ==
    UNCHANGED <<entry, result, given, snapshot, stdinSource, childStdin, peers, pc,
                config, wiring, sinks, mutexes, pump, child, calls>>

\* A call of FormatShellCommand on the command.
Format ==
    /\ ~shell.formatted
    /\ shell' = [shell EXCEPT !.text = FormatShellCommand(shell.command),
                              !.formatted = TRUE]
    /\ ShellFrame

\* The Logger of Loggerf is called with Launch, and later with Finish.
LoggerfCall(stream) ==
    /\ stream = (IF shell.lines = <<>> THEN Launch ELSE Finish)
    /\ Len(shell.lines) < 2
    /\ shell' = [shell EXCEPT !.lines = Append(@,
                     LoggerfLine(shell.command, stream,
                                 IF stream = Launch THEN LaunchPayload ELSE ExitPayload(0)))]
    /\ ShellFrame

NextShell ==
    \/ Format
    \/ \E stream \in {Launch, Finish} : LoggerfCall(stream)

SpecShell == InitShell /\ [][NextShell]_vars


\* The argument has a character that makes the formatter quote it.
NeedsQuotes(arg) ==
    \E i \in 1..Len(arg) : arg[i] \in {" ", "$", Backtick, "\"", "!", "'"}

\* The characters that get a backslash inside the quotes.
Escaped == {"$", Backtick, "\"", "!"}

EscCount(arg) == Cardinality({i \in 1..Len(arg) : arg[i] \in Escaped})

\* The text with the backslash in front of every escaped character removed.
RECURSIVE Unescape(_)
Unescape(text) ==
    IF text = <<>> THEN <<>>
    ELSE IF Len(text) >= 2 /\ text[1] = "\\" /\ text[2] \in Escaped
         THEN <<text[2]>> \o Unescape(SubSeq(text, 3, Len(text)))
         ELSE <<text[1]>> \o Unescape(Tail(text))

\* The length of the rendering of one argument.
PieceLen(arg) ==
    IF NeedsQuotes(arg) THEN Len(arg) + EscCount(arg) + 2 ELSE Len(arg)

\* piece renders arg: arg itself, or arg between double quotes with a
\* backslash in front of every escaped character and nowhere else.
IsRendered(piece, arg) ==
    IF NeedsQuotes(arg)
    THEN LET inner == SubSeq(piece, 2, Len(piece) - 1)
         IN  /\ Len(piece) = PieceLen(arg)
             /\ piece[1] = "\"" /\ piece[Len(piece)] = "\""
             /\ \A i \in 1..Len(inner) :
                    inner[i] \in Escaped => (i > 1 /\ inner[i - 1] = "\\")
             /\ Unescape(inner) = arg
    ELSE piece = arg

\* text is the renderings of the arguments, in order, one blank between two.
RECURSIVE IsRendering(_, _)
IsRendering(text, command) ==
    IF command = <<>> THEN text = <<>>
    ELSE LET n == PieceLen(Head(command))
         IN  /\ Len(text) >= n
             /\ IsRendered(SubSeq(text, 1, n), Head(command))
             /\ IF Len(command) = 1 THEN Len(text) = n
                ELSE /\ Len(text) > n
                     /\ text[n + 1] = " "
                     /\ IsRendering(SubSeq(text, n + 2, Len(text)), Tail(command))

LaunchPrefix == <<"l", "a", "u", "n", "c", "h", " ", "|", " ">>

FinishPrefix == <<"f", "i", "n", "i", "s", "h", " ", "|", " ">>

FinishSuffix == <<" ", "-", ">", " ", "e", "x", "i", "t", " ", "0">>

(* C30: FormatShellCommand joins the renderings of the arguments with single
   blanks; an argument with white space or one of the dollar, the backtick,
   the double quote, the bang and the single quote is put between double
   quotes with a backslash in front of every dollar, backtick, double quote
   and bang, every other argument is rendered as it is. The Launch line of a
   Loggerf logger is this text after the stream tag, the Finish line is the
   same text followed by the exit status. *)
C30_ShellRendering ==
    /\ shell.formatted => IsRendering(shell.text, shell.command)
    /\ \A i \in 1..Len(shell.lines) :
           LET line == shell.lines[i]
           IN  IF i = 1
               THEN /\ SubSeq(line, 1, 9) = LaunchPrefix
                    /\ IsRendering(SubSeq(line, 10, Len(line)), shell.command)
               ELSE /\ SubSeq(line, 1, 9) = FinishPrefix
                    /\ SubSeq(line, Len(line) - 9, Len(line)) = FinishSuffix
                    /\ IsRendering(SubSeq(line, 10, Len(line) - 10), shell.command)

\* A plain argument and one with a single quote and a dollar: the second is
\* quoted, the dollar escaped, the single quote left as it is.
C30_Witness ==
    /\ shell.command = <<<<"a">>, <<"'", "$">>>>
    /\ shell.formatted
    /\ shell.text = <<"a", " ", "\"", "'", "\\", "$", "\"">>
    /\ Len(shell.lines) = 2
    /\ shell.lines[1] = LaunchPrefix \o shell.text

====
